---- MODULE Spec2Model ----
(***************************************************************************)
(* Model of pyoxidizer's filesystem scan for Python resources              *)
(* (src/pyoxidizer/src/py_packaging/fsscan.rs) and of the target registry  *)
(* of its Starlark environment (src/pyoxidizer/src/starlark/env.rs).       *)
(*                                                                         *)
(* Strings are TLA+ strings, i.e. sequences of characters: Len, SubSeq,    *)
(* Head, Tail and \o act on them character by character.  A path is the    *)
(* sequence of its components relative to root_path (what Path::iter()     *)
(* yields after strip_prefix(root_path)).                                  *)
(***************************************************************************)
EXTENDS Naturals, Sequences, FiniteSets, TLC

(***************************************************************************)
(* Bounds of the model.                                                    *)
(***************************************************************************)
\* Largest number of files in a generated tree.
MaxFiles == 3
\* Largest number of scans (PythonResourceIterator::new) over one tree.
MaxScans == 2

(***************************************************************************)
(* str and Path primitives of the Rust standard library and itertools.     *)
(***************************************************************************)
Char(s, i) == SubSeq(s, i, i)

\* str::ends_with
ends_with(s, suffix) ==
    /\ Len(suffix) <= Len(s)
    /\ SubSeq(s, Len(s) - Len(suffix) + 1, Len(s)) = suffix

\* str::starts_with
starts_with(s, prefix) ==
    /\ Len(prefix) <= Len(s)
    /\ SubSeq(s, 1, Len(prefix)) = prefix

\* str::find(char): index of the first occurrence, 0 when there is none.
find(s, c) ==
    IF \E i \in 1..Len(s) : Char(s, i) = c
    THEN CHOOSE i \in 1..Len(s) :
            Char(s, i) = c /\ \A j \in 1..(i - 1) : Char(s, j) # c
    ELSE 0

\* str::rfind(char): index of the last occurrence, 0 when there is none.
rfind(s, c) ==
    IF \E i \in 1..Len(s) : Char(s, i) = c
    THEN CHOOSE i \in 1..Len(s) :
            Char(s, i) = c /\ \A j \in (i + 1)..Len(s) : Char(s, j) # c
    ELSE 0

\* itertools::join
RECURSIVE join(_, _)
join(parts, sep) ==
    IF Len(parts) = 0 THEN ""
    ELSE IF Len(parts) = 1 THEN parts[1]
    ELSE parts[1] \o sep \o join(Tail(parts), sep)

\* str::split(char), collected
RECURSIVE split(_, _)
split(s, c) ==
    LET i == find(s, c)
    IN  IF i = 0 THEN <<s>>
        ELSE <<SubSeq(s, 1, i - 1)>> \o split(SubSeq(s, i + 1, Len(s)), c)

\* str::replace for one-character patterns
RECURSIVE replace(_, _, _)
replace(s, from, to) ==
    IF Len(s) = 0 THEN ""
    ELSE (IF Head(s) = from THEN to ELSE Head(s)) \o replace(Tail(s), from, to)

\* Path::file_name
file_name(path) == path[Len(path)]

\* Path::parent of a relative path with at least one component
parent(path) == SubSeq(path, 1, Len(path) - 1)

\* Path::to_str on a POSIX host
to_str(path) == join(path, "/")

\* Path::extension: None (<<>>) without an embedded '.', or when the only '.'
\* leads the name; otherwise Some (<<e>>) of what follows the last '.'.
extension(path) ==
    LET name == file_name(path)
        dot  == rfind(name, ".")
    IN  IF dot <= 1 THEN <<>> ELSE <<SubSeq(name, dot + 1, Len(name))>>

\* Path::file_stem: the name up to the last '.', the whole name when
\* extension() is None.
file_stem(path) ==
    LET name == file_name(path)
        dot  == rfind(name, ".")
    IN  IF dot <= 1 THEN name ELSE SubSeq(name, 1, dot - 1)

(***************************************************************************)
(* The sorted tree walker (walkdir::WalkDir::sort_by on file_name).        *)
(***************************************************************************)
\* The characters of the modelled names in byte order.
AsciiOrder == "-./0123456789ABCDEFGHIJKLMNOPQRSTUVWXYZ\\_abcdefghijklmnopqrstuvwxyz"

byte(c) == CHOOSE i \in 1..Len(AsciiOrder) : Char(AsciiOrder, i) = c

\* OsStr::cmp(a, b) = Less: byte-wise lexicographic order.
RECURSIVE cmp_less(_, _)
cmp_less(a, b) ==
    IF Len(a) = 0 THEN Len(b) > 0
    ELSE IF Len(b) = 0 THEN FALSE
    ELSE IF Head(a) = Head(b) THEN cmp_less(Tail(a), Tail(b))
    ELSE byte(Head(a)) < byte(Head(b))

\* The entries of one directory in ascending file-name order.
RECURSIVE sort_by(_)
sort_by(names) ==
    IF names = {} THEN <<>>
    ELSE LET m == CHOOSE x \in names : \A y \in names \ {x} : cmp_less(x, y)
         IN  <<m>> \o sort_by(names \ {m})

\* Depth-first walk of the tree holding the files `files`: walk_dir lists the
\* directory dir in sorted order, walk_entries visits its entries from the i-th
\* on; directories are descended into where they sort, and filtered from the
\* result.
RECURSIVE walk_dir(_, _)
RECURSIVE walk_entries(_, _, _, _)
walk_entries(files, dir, sorted, i) ==
    IF i > Len(sorted) THEN <<>>
    ELSE LET child == Append(dir, sorted[i])
         IN  (IF child \in files THEN <<child>> ELSE walk_dir(files, child))
             \o walk_entries(files, dir, sorted, i + 1)

walk_dir(files, dir) ==
    LET under == {p \in files : Len(p) > Len(dir) /\ SubSeq(p, 1, Len(dir)) = dir}
    IN  walk_entries(files, dir, sort_by({p[Len(dir) + 1] : p \in under}), 1)

walk_tree_files(files) == walk_dir(files, <<>>)

\* The orders of a walker without sort_by: the order of the entries is the
\* file system's, and need not be the same from one scan to the next.
WalkOrdersUnsorted(files) ==
    LET n == Cardinality(files)
    IN  {w \in [1..n -> files] : \A i, j \in 1..n : w[i] = w[j] => i = j}

\* The orders in which the walker of a new scan may deliver the files: sort_by
\* fixes the order of every directory, so there is one.
WalkOrders(files) == {walk_tree_files(files)}

(***************************************************************************)
(* PythonResourceIterator::resolve_dir_entry.  Its result is modelled as   *)
(* item (None <<>> / Some <<r>>), the names it inserts into seen_packages, *)
(* and whether it panicked.                                                *)
(***************************************************************************)
Skip == [item |-> <<>>, packages |-> {}, panicked |-> FALSE]

Panic == [item |-> <<>>, packages |-> {}, panicked |-> TRUE]

Yield(r, pkgs) == [item |-> <<r>>, packages |-> pkgs, panicked |-> FALSE]

is_package_from_path(path) == starts_with(file_name(path), "__init__.")

\* No site-packages rewrite: the path stays relative to root_path.
keep_site_packages(components) ==
    [in_site_packages |-> components[1] = "site-packages",
     components       |-> components]

\* The site-packages rewrite: strip_prefix(root_path.join("site-packages")).
strip_site_packages(components) ==
    IF components[1] = "site-packages"
    THEN [in_site_packages |-> TRUE, components |-> Tail(components)]
    ELSE [in_site_packages |-> FALSE, components |-> components]

\* Index of the first directory component that ends with ".egg", 0 if none:
\* where the loop building egg_root_path breaks.
egg_root_len(components) ==
    LET dirs == SubSeq(components, 1, Len(components) - 1)
    IN  IF \E i \in 1..Len(dirs) : ends_with(dirs[i], ".egg")
        THEN CHOOSE i \in 1..Len(dirs) :
                /\ ends_with(dirs[i], ".egg")
                /\ \A j \in 1..(i - 1) : ~ends_with(dirs[j], ".egg")
        ELSE 0

\* The egg rewrite with an egg root that ends before the ".egg" directory.
strip_egg_short(components) ==
    SubSeq(components, egg_root_len(components), Len(components))

\* The unpacked-egg rewrite: strip_prefix(egg_root_path).
strip_egg(components) ==
    SubSeq(components, egg_root_len(components) + 1, Len(components))

\* Index of the last suffix of the table the file name ends with, 0 if none.
matching_suffix_last(name, ext_suffixes) ==
    IF \E i \in 1..Len(ext_suffixes) : ends_with(name, ext_suffixes[i])
    THEN CHOOSE i \in 1..Len(ext_suffixes) :
            /\ ends_with(name, ext_suffixes[i])
            /\ \A j \in (i + 1)..Len(ext_suffixes) : ~ends_with(name, ext_suffixes[j])
    ELSE 0

\* Index of the first suffix of the table the file name ends with, 0 if none.
matching_suffix(name, ext_suffixes) ==
    IF \E i \in 1..Len(ext_suffixes) : ends_with(name, ext_suffixes[i])
    THEN CHOOSE i \in 1..Len(ext_suffixes) :
            /\ ends_with(name, ext_suffixes[i])
            /\ \A j \in 1..(i - 1) : ~ends_with(name, ext_suffixes[j])
    ELSE 0

\* The extension-module arm without the special case of __init__.
extension_module_no_init(path, components, ext_suffix) ==
    LET name          == file_name(components)
        package_parts == SubSeq(components, 1, Len(components) - 1)
        package0      == join(package_parts, ".")
        module_name   == SubSeq(name, 1, Len(name) - Len(ext_suffix))
        full_module_name == join(Append(package_parts, module_name), ".")
        package       == IF package0 = "" THEN full_module_name ELSE package0
    IN  Yield([kind |-> "ExtensionModule", package |-> package,
               stem |-> module_name, full_name |-> full_module_name,
               path |-> path, extension_file_suffix |-> ext_suffix],
              {package})

\* The body of `for ext_suffix in &self.suffixes.extension` on a match.
extension_module(path, components, ext_suffix) ==
    LET name          == file_name(components)
        package_parts == SubSeq(components, 1, Len(components) - 1)
        package0      == join(package_parts, ".")
        module_name   == SubSeq(name, 1, Len(name) - Len(ext_suffix))
        stem          == IF module_name = "__init__" THEN "" ELSE module_name
        full_parts    == IF module_name = "__init__" THEN package_parts
                         ELSE Append(package_parts, module_name)
        full_module_name == join(full_parts, ".")
        package       == IF package0 = "" THEN full_module_name ELSE package0
    IN  Yield([kind |-> "ExtensionModule", package |-> package, stem |-> stem,
               full_name |-> full_module_name, path |-> path,
               extension_file_suffix |-> ext_suffix],
              {package})

\* The Some("py") arm without the special case of __init__.
source_module_no_init(path, components) ==
    LET package_parts == SubSeq(components, 1, Len(components) - 1)
        package0      == join(package_parts, ".")
        full_module_name == join(Append(package_parts, file_stem(components)), ".")
        package       == IF package0 = "" THEN full_module_name ELSE package0
    IN  Yield([kind |-> "Source", name |-> full_module_name, path |-> path,
               is_package |-> is_package_from_path(path)],
              {package})

\* The Some("py") arm.
source_module(path, components) ==
    LET package_parts == SubSeq(components, 1, Len(components) - 1)
        package0      == join(package_parts, ".")
        module_name   == file_stem(components)
        full_parts    == IF module_name # "__init__"
                         THEN Append(package_parts, module_name)
                         ELSE package_parts
        full_module_name == join(full_parts, ".")
        package       == IF package0 = "" THEN full_module_name ELSE package0
    IN  Yield([kind |-> "Source", name |-> full_module_name, path |-> path,
               is_package |-> is_package_from_path(path)],
              {package})

\* The optimization level read off the `opt-` tag alone, whatever its number.
optimization_level_any(rel_str) ==
    IF ends_with(rel_str, ".opt-1.pyc") \/ ends_with(rel_str, ".opt-2.pyc")
    THEN "One"
    ELSE "Zero"

\* The optimization level read off rel_str.
optimization_level(rel_str) ==
    IF ends_with(rel_str, ".opt-1.pyc") THEN "One"
    ELSE IF ends_with(rel_str, ".opt-2.pyc") THEN "Two"
    ELSE "Zero"

\* The Some("pyc") arm without the panic: a `.pyc` file with fewer than two
\* components is classified like one outside __pycache__.
bytecode_module_lenient(path, components, rel_str) ==
    IF Len(components) < 2 \/ components[Len(components) - 1] # "__pycache__"
    THEN Yield([kind |-> "Other",
                package |-> join(SubSeq(components, 1, Len(components) - 1), "."),
                stem |-> components[Len(components)],
                full_name |-> join(components, "."),
                path |-> path],
               {})
    ELSE
    LET package_parts == SubSeq(components, 1, Len(components) - 2)
        package0      == join(package_parts, ".")
        name_parts    == split(file_stem(components), ".")
        module_name   == join(SubSeq(name_parts, 1, Len(name_parts) - 1), ".")
        full_parts    == IF module_name # "__init__"
                         THEN Append(package_parts, module_name)
                         ELSE package_parts
        full_module_name == join(full_parts, ".")
        package       == IF package0 = "" THEN full_module_name ELSE package0
    IN  Yield([kind |-> "Bytecode", name |-> full_module_name,
               optimization_level |-> optimization_level(rel_str), path |-> path],
              {package})

\* The Some("pyc") arm taking the whole file stem, interpreter tag included,
\* as the module name.
bytecode_module_keep_tag(path, components, rel_str) ==
    IF Len(components) < 2 THEN Panic
    ELSE IF components[Len(components) - 1] # "__pycache__"
    THEN Yield([kind |-> "Other",
                package |-> join(SubSeq(components, 1, Len(components) - 1), "."),
                stem |-> components[Len(components)],
                full_name |-> join(components, "."),
                path |-> path],
               {})
    ELSE
    LET package_parts == SubSeq(components, 1, Len(components) - 2)
        package0      == join(package_parts, ".")
        module_name   == file_stem(components)
        full_parts    == IF module_name # "__init__"
                         THEN Append(package_parts, module_name)
                         ELSE package_parts
        full_module_name == join(full_parts, ".")
        package       == IF package0 = "" THEN full_module_name ELSE package0
    IN  Yield([kind |-> "Bytecode", name |-> full_module_name,
               optimization_level |-> optimization_level(rel_str), path |-> path],
              {package})

\* The Some("pyc") arm handing a `.pyc` file outside __pycache__ over as a
\* resource file, like the files of the `_` arm.
bytecode_module_legacy_pending(path, components, rel_str) ==
    IF Len(components) < 2 THEN Panic
    ELSE IF components[Len(components) - 1] # "__pycache__"
    THEN Yield([kind |-> "ResourceFile", full_path |-> path,
                relative_path |-> components], {})
    ELSE
    LET package_parts == SubSeq(components, 1, Len(components) - 2)
        package0      == join(package_parts, ".")
        name_parts    == split(file_stem(components), ".")
        module_name   == join(SubSeq(name_parts, 1, Len(name_parts) - 1), ".")
        full_parts    == IF module_name # "__init__"
                         THEN Append(package_parts, module_name)
                         ELSE package_parts
        full_module_name == join(full_parts, ".")
        package       == IF package0 = "" THEN full_module_name ELSE package0
    IN  Yield([kind |-> "Bytecode", name |-> full_module_name,
               optimization_level |-> optimization_level(rel_str), path |-> path],
              {package})

\* The Some("pyc") arm skipping a `.pyc` file with fewer than two components
\* (return None) instead of panicking.
bytecode_module_skip_short(path, components, rel_str) ==
    IF Len(components) < 2 THEN Skip
    ELSE IF components[Len(components) - 1] # "__pycache__"
    THEN Yield([kind |-> "Other",
                package |-> join(SubSeq(components, 1, Len(components) - 1), "."),
                stem |-> components[Len(components)],
                full_name |-> join(components, "."),
                path |-> path],
               {})
    ELSE
    LET package_parts == SubSeq(components, 1, Len(components) - 2)
        package0      == join(package_parts, ".")
        name_parts    == split(file_stem(components), ".")
        module_name   == join(SubSeq(name_parts, 1, Len(name_parts) - 1), ".")
        full_parts    == IF module_name # "__init__"
                         THEN Append(package_parts, module_name)
                         ELSE package_parts
        full_module_name == join(full_parts, ".")
        package       == IF package0 = "" THEN full_module_name ELSE package0
    IN  Yield([kind |-> "Bytecode", name |-> full_module_name,
               optimization_level |-> optimization_level(rel_str), path |-> path],
              {package})

\* The Some("pyc") arm.
bytecode_module(path, components, rel_str) ==
    IF Len(components) < 2 THEN Panic
    ELSE IF components[Len(components) - 1] # "__pycache__"
    THEN Yield([kind |-> "Other",
                package |-> join(SubSeq(components, 1, Len(components) - 1), "."),
                stem |-> components[Len(components)],
                full_name |-> join(components, "."),
                path |-> path],
               {})
    ELSE
    LET package_parts == SubSeq(components, 1, Len(components) - 2)
        package0      == join(package_parts, ".")
        name_parts    == split(file_stem(components), ".")
        module_name   == join(SubSeq(name_parts, 1, Len(name_parts) - 1), ".")
        full_parts    == IF module_name # "__init__"
                         THEN Append(package_parts, module_name)
                         ELSE package_parts
        full_module_name == join(full_parts, ".")
        package       == IF package0 = "" THEN full_module_name ELSE package0
    IN  Yield([kind |-> "Bytecode", name |-> full_module_name,
               optimization_level |-> optimization_level(rel_str), path |-> path],
              {package})

\* Classification without the Some("egg") and Some("pth") arms: such files
\* fall through to the ResourceFile arm.
classify_without_egg_pth(path, components, rel_str, ext_suffixes) ==
    LET name == file_name(components)
        m    == matching_suffix(name, ext_suffixes)
        ext  == extension(components)
    IN  IF m # 0 THEN extension_module(path, components, ext_suffixes[m])
        ELSE IF ext = <<"py">> THEN source_module(path, components)
        ELSE IF ext = <<"pyc">> THEN bytecode_module(path, components, rel_str)
        ELSE Yield([kind |-> "ResourceFile", full_path |-> path,
                    relative_path |-> components], {})

\* Classification of the (rewritten) relative path: lines 216-369.
classify(path, components, rel_str, ext_suffixes) ==
    LET name == file_name(components)
        m    == matching_suffix(name, ext_suffixes)
        ext  == extension(components)
    IN  IF m # 0 THEN extension_module(path, components, ext_suffixes[m])
        ELSE IF ext = <<"py">> THEN source_module(path, components)
        ELSE IF ext = <<"pyc">> THEN bytecode_module(path, components, rel_str)
        ELSE IF ext = <<"egg">> THEN Yield([kind |-> "EggFile", path |-> path], {})
        ELSE IF ext = <<"pth">> THEN Yield([kind |-> "PthFile", path |-> path], {})
        ELSE Yield([kind |-> "ResourceFile", full_path |-> path,
                    relative_path |-> components], {})

resolve_dir_entry(path, ext_suffixes) ==
    IF ends_with(path[1], ".dist-info") THEN Skip
    ELSE IF ends_with(path[1], ".egg-info") THEN Skip
    ELSE
    LET sp         == strip_site_packages(path)
        components == sp.components
        rel_str    == to_str(components)
    IN  \* components[0..components.len() - 1] of an empty list: usize underflow
        IF Len(components) = 0 THEN Panic
        ELSE IF egg_root_len(components) # 0
        THEN LET in_egg == strip_egg(components)
             IN  IF in_egg[1] = "EGG-INFO" THEN Skip
                 ELSE classify(path, in_egg, rel_str, ext_suffixes)
        ELSE classify(path, components, rel_str, ext_suffixes)

(***************************************************************************)
(* PythonResourceIterator::next.                                           *)
(***************************************************************************)
\* find_package without relative_components.reverse().
RECURSIVE find_package_unreversed(_, _, _)
find_package_unreversed(components, relative_components, seen) ==
    IF Len(components) = 0 THEN <<>>
    ELSE LET candidate_package == join(components, ".")
         IN  IF candidate_package \in seen
             THEN <<[leaf_package  |-> candidate_package,
                     relative_name |-> join(relative_components, "/")]>>
             ELSE find_package_unreversed(
                    SubSeq(components, 1, Len(components) - 1),
                    Append(relative_components, components[Len(components)]),
                    seen)

\* The while loop over the directory components of a buffered resource:
\* Some(<<leaf_package, relative_name>>) or None.
RECURSIVE find_package(_, _, _)
\* find_package testing the candidate before it tests for the end of the
\* components: the empty package name is a candidate too.
find_package_with_root(components, relative_components, seen) ==
    IF join(components, ".") \in seen
    THEN <<[leaf_package  |-> join(components, "."),
            relative_name |-> join(relative_components, "/")]>>
    ELSE IF Len(components) = 0 THEN <<>>
    ELSE find_package(SubSeq(components, 1, Len(components) - 1),
                      <<components[Len(components)]>> \o relative_components,
                      seen)

find_package(components, relative_components, seen) ==
    IF Len(components) = 0 THEN <<>>
    ELSE LET candidate_package == join(components, ".")
         IN  IF candidate_package \in seen
             THEN <<[leaf_package  |-> candidate_package,
                     relative_name |-> join(relative_components, "/")]>>
             ELSE find_package(SubSeq(components, 1, Len(components) - 1),
                               <<components[Len(components)]>> \o relative_components,
                               seen)

\* One iteration of the second loop on a buffered resource: Some(Resource) or None.
resolve_resource(resource, seen) ==
    LET basename  == file_name(resource.relative_path)
        full_name == replace(to_str(resource.relative_path), "\\", "/")
        found     == find_package(parent(resource.relative_path), <<basename>>, seen)
    IN  IF found = <<>> THEN <<>>
        ELSE <<[kind |-> "Resource", full_name |-> full_name,
                leaf_package |-> found[1].leaf_package,
                relative_name |-> found[1].relative_name,
                path |-> resource.full_path]>>

\* The second loop taking the resource buffered last (pop() for remove(0)).
RECURSIVE drain_loop_lifo(_, _)
drain_loop_lifo(res, seen) ==
    IF Len(res) = 0 THEN [resources |-> res, ret |-> <<>>]
    ELSE IF resolve_resource(res[Len(res)], seen) = <<>>
    THEN drain_loop_lifo(SubSeq(res, 1, Len(res) - 1), seen)
    ELSE [resources |-> SubSeq(res, 1, Len(res) - 1),
          ret |-> resolve_resource(res[Len(res)], seen)]

\* The second loop: drop unresolvable resources until one resolves.
\* drain_step decides on r, the resolution of the resource removed from the front.
RECURSIVE drain_loop(_, _)
\* The second loop ending the call at the first resource that does not
\* resolve, the rest of the buffer left for later calls.
drain_step_stop(r, rest, seen) ==
    [resources |-> rest, ret |-> r]

drain_step(r, rest, seen) ==
    IF r = <<>> THEN drain_loop(rest, seen)
    ELSE [resources |-> rest, ret |-> r]

drain_loop(res, seen) ==
    IF Len(res) = 0 THEN [resources |-> res, ret |-> <<>>]
    ELSE drain_step(resolve_resource(Head(res), seen), Tail(res), seen)

\* The first loop.  fail is the position, in walk, of the entry whose read
\* fails (entry.expect panics), 0 when every read succeeds.  walk_step decides
\* on r, what resolve_dir_entry made of the entry taken from the walker.
\* failed is the entry whose read failed in this call, if one did.
RECURSIVE walk_loop(_, _, _, _, _)
\* The first loop leaving at an entry that resolve_dir_entry skips (`break`
\* for the `continue` after python_resource.is_none()).
walk_step_break(r, rest, seen, res, ext_suffixes, fail) ==
    IF r.panicked
    THEN [walk |-> rest, seen |-> seen, resources |-> res, ret |-> <<>>,
          panicked |-> TRUE, exhausted |-> FALSE, failed |-> <<>>]
    ELSE IF r.item = <<>>
    THEN [walk |-> rest, seen |-> seen \cup r.packages, resources |-> res,
          ret |-> <<>>, panicked |-> FALSE, exhausted |-> TRUE, failed |-> <<>>]
    ELSE IF r.item[1].kind = "ResourceFile"
    THEN walk_loop(rest, seen \cup r.packages,
                   Append(res, [full_path |-> r.item[1].full_path,
                                relative_path |-> r.item[1].relative_path]),
                   ext_suffixes, fail)
    ELSE [walk |-> rest, seen |-> seen \cup r.packages, resources |-> res,
          ret |-> r.item, panicked |-> FALSE, exhausted |-> FALSE, failed |-> <<>>]

\* The first loop resolving a resource file as soon as the walker delivers it,
\* against the packages seen so far, instead of buffering it.
walk_step_eager(r, rest, seen, res, ext_suffixes, fail) ==
    IF r.panicked
    THEN [walk |-> rest, seen |-> seen, resources |-> res, ret |-> <<>>,
          panicked |-> TRUE, exhausted |-> FALSE, failed |-> <<>>]
    ELSE IF r.item = <<>>
    THEN walk_loop(rest, seen \cup r.packages, res, ext_suffixes, fail)
    ELSE IF r.item[1].kind = "ResourceFile"
    THEN IF resolve_resource(r.item[1], seen) = <<>>
         THEN walk_loop(rest, seen, res, ext_suffixes, fail)
         ELSE [walk |-> rest, seen |-> seen, resources |-> res,
               ret |-> resolve_resource(r.item[1], seen), panicked |-> FALSE,
               exhausted |-> FALSE, failed |-> <<>>]
    ELSE [walk |-> rest, seen |-> seen \cup r.packages, resources |-> res,
          ret |-> r.item, panicked |-> FALSE, exhausted |-> FALSE, failed |-> <<>>]

walk_step(r, rest, seen, res, ext_suffixes, fail) ==
    IF r.panicked
    THEN [walk |-> rest, seen |-> seen, resources |-> res, ret |-> <<>>,
          panicked |-> TRUE, exhausted |-> FALSE, failed |-> <<>>]
    ELSE IF r.item = <<>>
    THEN walk_loop(rest, seen \cup r.packages, res, ext_suffixes, fail)
    ELSE IF r.item[1].kind = "ResourceFile"
    THEN walk_loop(rest, seen \cup r.packages,
                   Append(res, [full_path |-> r.item[1].full_path,
                                relative_path |-> r.item[1].relative_path]),
                   ext_suffixes, fail)
    ELSE [walk |-> rest, seen |-> seen \cup r.packages, resources |-> res,
          ret |-> r.item, panicked |-> FALSE, exhausted |-> FALSE, failed |-> <<>>]

\* The first loop over a walker that drops the entries it cannot read
\* (filter_map(|entry| entry.ok())) and goes on with the next one.
walk_loop_skip(walk, seen, res, ext_suffixes, fail) ==
    IF Len(walk) = 0
    THEN [walk |-> walk, seen |-> seen, resources |-> res, ret |-> <<>>,
          panicked |-> FALSE, exhausted |-> TRUE, failed |-> <<>>]
    ELSE IF fail = 1
    THEN [walk_loop(Tail(walk), seen, res, ext_suffixes, 0)
            EXCEPT !.failed = <<Head(walk)>>]
    ELSE walk_step(resolve_dir_entry(Head(walk), ext_suffixes), Tail(walk), seen,
                   res, ext_suffixes, IF fail = 0 THEN 0 ELSE fail - 1)

walk_loop(walk, seen, res, ext_suffixes, fail) ==
    IF Len(walk) = 0
    THEN [walk |-> walk, seen |-> seen, resources |-> res, ret |-> <<>>,
          panicked |-> FALSE, exhausted |-> TRUE, failed |-> <<>>]
    ELSE IF fail = 1
    THEN [walk |-> walk, seen |-> seen, resources |-> res, ret |-> <<>>,
          panicked |-> TRUE, exhausted |-> FALSE, failed |-> <<Head(walk)>>]
    ELSE walk_step(resolve_dir_entry(Head(walk), ext_suffixes), Tail(walk), seen,
                   res, ext_suffixes, IF fail = 0 THEN 0 ELSE fail - 1)

\* The end of next() with a registry that is discarded, with the rest of the
\* scan's state, when the sequence ends.
after_drain_clear(w, d) ==
    [walk |-> w.walk, seen |-> IF d.ret = <<>> THEN {} ELSE w.seen,
     resources |-> d.resources, ret |-> d.ret, panicked |-> FALSE, failed |-> <<>>]

\* The end of next() with a second loop that reads the buffer without
\* removing from it: the buffer stays as the first loop left it.
after_drain_unconsumed(w, d) ==
    [walk |-> w.walk, seen |-> w.seen, resources |-> w.resources, ret |-> d.ret,
     panicked |-> FALSE, failed |-> <<>>]

\* What next() returns and leaves behind once the first loop has ended in w:
\* the second loop runs only when the walker is exhausted.
after_drain(w, d) ==
    [walk |-> w.walk, seen |-> w.seen, resources |-> d.resources, ret |-> d.ret,
     panicked |-> FALSE, failed |-> <<>>]

after_walk(w) ==
    IF w.exhausted THEN after_drain(w, drain_loop(w.resources, w.seen))
    ELSE [walk |-> w.walk, seen |-> w.seen, resources |-> w.resources,
          ret |-> w.ret, panicked |-> w.panicked, failed |-> w.failed]

\* next(): the first loop, then, once the walker is exhausted, the second.
next(walk, seen, res, ext_suffixes, fail) ==
    after_walk(walk_loop(walk, seen, res, ext_suffixes, fail))

(***************************************************************************)
(* find_python_modules.                                                    *)
(***************************************************************************)
\* The bytes DataLocation::resolve reads from the file at path: every file
\* has a content of its own.
source_data(path) == <<"bytes of", path>>

\* BTreeMap::insert: the value of an existing key is replaced.
insert(mods, key, value) ==
    [k \in (DOMAIN mods) \cup {key} |-> IF k = key THEN value ELSE mods[k]]

\* The for loop over a new iterator.  for_body decides on n, what next()
\* returned for the iterator that had `before` entries left; unreadable is the
\* set of files whose read fails.
RECURSIVE for_loop(_, _, _, _, _, _, _)
\* The for loop without `if let PythonFileResource::Source(module)`: bytecode
\* modules get a key as well.
for_body_unfiltered(n, before, mods, ext_suffixes, fail, unreadable) ==
    IF n.panicked THEN [result |-> "panicked"]
    ELSE IF n.ret = <<>> THEN [result |-> "Ok", value |-> mods]
    ELSE IF n.ret[1].kind \notin {"Source", "Bytecode"}
    THEN for_loop(n.walk, n.seen, n.resources, mods, ext_suffixes,
                  IF fail = 0 THEN 0 ELSE fail - (before - Len(n.walk)), unreadable)
    ELSE IF n.ret[1].path \in unreadable THEN [result |-> "Err"]
    ELSE for_loop(n.walk, n.seen, n.resources,
                  insert(mods, n.ret[1].name, source_data(n.ret[1].path)),
                  ext_suffixes,
                  IF fail = 0 THEN 0 ELSE fail - (before - Len(n.walk)), unreadable)

for_body(n, before, mods, ext_suffixes, fail, unreadable) ==
    IF n.panicked THEN [result |-> "panicked"]
    ELSE IF n.ret = <<>> THEN [result |-> "Ok", value |-> mods]
    ELSE IF n.ret[1].kind # "Source"
    THEN for_loop(n.walk, n.seen, n.resources, mods, ext_suffixes,
                  IF fail = 0 THEN 0 ELSE fail - (before - Len(n.walk)), unreadable)
    ELSE IF n.ret[1].path \in unreadable THEN [result |-> "Err"]
    ELSE for_loop(n.walk, n.seen, n.resources,
                  insert(mods, n.ret[1].name, source_data(n.ret[1].path)),
                  ext_suffixes,
                  IF fail = 0 THEN 0 ELSE fail - (before - Len(n.walk)), unreadable)

for_loop(walk, seen, res, mods, ext_suffixes, fail, unreadable) ==
    for_body(next(walk, seen, res, ext_suffixes, fail), Len(walk), mods,
             ext_suffixes, fail, unreadable)

find_python_modules(walk, ext_suffixes, fail, unreadable) ==
    for_loop(walk, {}, <<>>, <<>>, ext_suffixes, fail, unreadable)

VARIABLES
    root_files,       \* the files below root_path (the tree does not change)
    suffixes,         \* PythonModuleSuffixes.extension
    walkdir_result,   \* entries the walker has not delivered yet
    seen_packages,    \* HashSet<String>
    resources,        \* Vec<ResourceFile>
    out,              \* the records next() has returned in this scan, in order
    status,           \* "active", "done" (next returned None), "panicked"
    scans,            \* number of scans started over root_files
    prev_out,         \* out of the previous scan
    failed,           \* the entry whose read failed in this scan, if one did
    pulled_at_end,    \* next() was called after it had returned None
    walk_order,       \* the files in the order the walker of this scan delivers
                      \* them: walkdir_result as the scan started
    mods_call         \* the call of find_python_modules on root_files, if made:
                      \* the files that could not be read and what it returned

\* The variables of the scan.
scan_vars == <<root_files, suffixes, walkdir_result, seen_packages, resources, out,
               status, scans, prev_out, failed, pulled_at_end, walk_order,
               mods_call>>

VARIABLES
    targets,                      \* EnvironmentContext.targets: BTreeMap<String, Target>
    targets_order,                \* EnvironmentContext.targets_order
    default_target,               \* Option<String>
    default_build_script_target,  \* Option<String>
    env_status,                   \* "running", or "panicked" once a call has panicked
    last_call,                    \* the last call made on the environment, with
                                  \* its arguments and what it returned (for
                                  \* register_target: the Target it replaced;
                                  \* for resolve_target: the Target replaced by
                                  \* the registration it directly follows)
    first_registration,           \* the target names in the order of their first
                                  \* registration
    invoked_since,                \* per name: its callable was invoked since the
                                  \* name was last registered
    built_since                   \* per name: its build was run since the name
                                  \* was last registered

\* The variables of the Starlark environment.
env_vars == <<targets, targets_order, default_target, default_build_script_target,
              env_status, last_call, first_registration, invoked_since,
              built_since>>

vars == <<scan_vars, env_vars>>

(***************************************************************************)
(* EnvironmentContext: the registry of build targets (starlark/env.rs).    *)
(* An Option is <<>> (None) or <<x>> (Some(x)); a map is a function on its *)
(* key set.                                                                *)
(***************************************************************************)
\* The target names and Starlark functions of the configurations.
Targets == {"a", "b"}

Callables == {"foo", "bar"}

\* The depends arguments: none, a single target, two targets in order.
DependsLists == {<<>>, <<"a">>, <<"a", "b">>}

\* The Target that register_target inserts.
Target(callable, depends) ==
    [callable |-> callable, depends |-> depends,
     resolved_value |-> <<>>, built_target |-> <<>>]

\* The registry fields of the EnvironmentContext.
context ==
    [targets |-> targets, targets_order |-> targets_order,
     default_target |-> default_target,
     default_build_script_target |-> default_build_script_target]

\* register_target without the contains_key test: the name is pushed on
\* targets_order by every registration.
register_target_push(ctx, target, callable, depends, default, default_build_script) ==
    [targets_order |-> Append(ctx.targets_order, target),
     targets |-> insert(ctx.targets, target, Target(callable, depends)),
     default_target |->
        IF default \/ ctx.default_target = <<>>
        THEN <<target>>
        ELSE ctx.default_target,
     default_build_script_target |->
        IF default_build_script \/ ctx.default_build_script_target = <<>>
        THEN <<target>>
        ELSE ctx.default_build_script_target]

\* register_target that makes every registered target the default one.
register_target_last(ctx, target, callable, depends, default, default_build_script) ==
    [targets_order |->
        IF target \notin DOMAIN ctx.targets
        THEN Append(ctx.targets_order, target)
        ELSE ctx.targets_order,
     targets |-> insert(ctx.targets, target, Target(callable, depends)),
     default_target |-> <<target>>,
     default_build_script_target |->
        IF default_build_script \/ ctx.default_build_script_target = <<>>
        THEN <<target>>
        ELSE ctx.default_build_script_target]

\* EnvironmentContext::register_target: the context it leaves behind.
register_target(ctx, target, callable, depends, default, default_build_script) ==
    [targets_order |->
        IF target \notin DOMAIN ctx.targets
        THEN Append(ctx.targets_order, target)
        ELSE ctx.targets_order,
     targets |-> insert(ctx.targets, target, Target(callable, depends)),
     default_target |->
        IF default \/ ctx.default_target = <<>>
        THEN <<target>>
        ELSE ctx.default_target,
     default_build_script_target |->
        IF default_build_script \/ ctx.default_build_script_target = <<>>
        THEN <<target>>
        ELSE ctx.default_build_script_target]

\* What a call returns: a value, an error (Err, propagated by `?`), or a panic.
ValueOk(v) == [kind |-> "Ok", value |-> v]

ValueErr == [kind |-> "Err", value |-> <<>>]

\* The value a Starlark function returns for the arguments args.
call(callable, args) == [function |-> callable, args |-> args]

\* starlark_resolve_target.  borrowed: the caller holds the guard that
\* downcast_mut returned for the context (every call keeps its guard, context,
\* to its end); nested: what downcast_mut does on a context that is already
\* borrowed, "panic" or "Err".  call_fails: the call of the callable returns an
\* error.  The result is ret, the targets left behind, and the callables
\* invoked with their arguments, in order.
RECURSIVE starlark_resolve_target(_, _, _, _, _)
RECURSIVE resolve_depends(_, _, _, _, _, _, _, _)

\* target_entry.callable.call(args) and what follows it.
call_callable(target, target_entry, args, tgts, invoked, call_fails) ==
    IF call_fails
    THEN [ret |-> ValueErr, targets |-> tgts,
          invoked |-> Append(invoked, [target |-> target,
                                       callable |-> target_entry.callable,
                                       args |-> args])]
    ELSE [ret |-> ValueOk(call(target_entry.callable, args)),
          targets |->
            IF target \in DOMAIN tgts
            THEN [tgts EXCEPT ![target].resolved_value =
                                <<call(target_entry.callable, args)>>]
            ELSE tgts,
          invoked |-> Append(invoked, [target |-> target,
                                       callable |-> target_entry.callable,
                                       args |-> args])]

\* One iteration of `for depend_target in target_entry.depends`, r being what
\* the recursive call returned.
depends_step(r, target, target_entry, rest, args, invoked, call_fails, nested) ==
    IF r.ret.kind # "Ok"
    THEN [ret |-> r.ret, targets |-> r.targets, invoked |-> invoked \o r.invoked]
    ELSE resolve_depends(target, target_entry, rest, Append(args, r.ret.value),
                         r.targets, invoked \o r.invoked, call_fails, nested)

resolve_depends(target, target_entry, depends, args, tgts, invoked, call_fails, nested) ==
    IF depends = <<>>
    THEN call_callable(target, target_entry, args, tgts, invoked, call_fails)
    ELSE depends_step(
            starlark_resolve_target(Head(depends), tgts, TRUE, call_fails, nested),
            target, target_entry, Tail(depends), args, invoked, call_fails, nested)

\* starlark_resolve_target without the return of the cached value.
starlark_resolve_target_uncached(target, tgts, borrowed, call_fails, nested) ==
    IF borrowed
    THEN [ret |-> [kind |-> nested, value |-> <<>>], targets |-> tgts, invoked |-> <<>>]
    ELSE IF target \notin DOMAIN tgts
    THEN [ret |-> ValueErr, targets |-> tgts, invoked |-> <<>>]
    ELSE resolve_depends(target, tgts[target], tgts[target].depends, <<>>, tgts,
                         <<>>, call_fails, nested)

starlark_resolve_target(target, tgts, borrowed, call_fails, nested) ==
    IF borrowed
    THEN [ret |-> [kind |-> nested, value |-> <<>>], targets |-> tgts, invoked |-> <<>>]
    ELSE IF target \in DOMAIN tgts /\ tgts[target].resolved_value # <<>>
    THEN [ret |-> ValueOk(tgts[target].resolved_value[1]), targets |-> tgts,
          invoked |-> <<>>]
    ELSE IF target \notin DOMAIN tgts
    THEN [ret |-> ValueErr, targets |-> tgts, invoked |-> <<>>]
    ELSE resolve_depends(target, tgts[target], tgts[target].depends, <<>>, tgts,
                         <<>>, call_fails, nested)

\* What happens once build_resolved_target has a resolved value to build: the
\* build returns a ResolvedTarget ("Ok"), the build returns an error ("build
\* Err"), or an error comes before the build is run ("Err": create_dir_all
\* fails, or the value is of no type that can be built).
BuildOutcomes == {"Ok", "build Err", "Err"}

\* The ResolvedTarget that building the value resolved for target returns.
ResolvedTarget(target, value) == [output_path |-> target, built_from |-> value]

\* build_resolved_target without the return of the stored built_target.
build_resolved_target_rebuild(tgts, target, outcome) ==
    IF target \notin DOMAIN tgts
    THEN [ret |-> ValueErr, targets |-> tgts, built |-> FALSE]
    ELSE IF tgts[target].resolved_value = <<>>
    THEN [ret |-> ValueErr, targets |-> tgts, built |-> FALSE]
    ELSE IF outcome = "Err"
    THEN [ret |-> ValueErr, targets |-> tgts, built |-> FALSE]
    ELSE IF outcome = "build Err"
    THEN [ret |-> ValueErr, targets |-> tgts, built |-> TRUE]
    ELSE [ret |-> ValueOk(ResolvedTarget(target, tgts[target].resolved_value[1])),
          targets |-> [tgts EXCEPT ![target].built_target =
                        <<ResolvedTarget(target, tgts[target].resolved_value[1])>>],
          built |-> TRUE]

\* EnvironmentContext::build_resolved_target: what it returns, the targets it
\* leaves behind, and whether it ran the build of the resolved value.
build_resolved_target(tgts, target, outcome) ==
    IF target \notin DOMAIN tgts
    THEN [ret |-> ValueErr, targets |-> tgts, built |-> FALSE]
    ELSE IF tgts[target].built_target # <<>>
    THEN [ret |-> ValueOk(tgts[target].built_target[1]), targets |-> tgts,
          built |-> FALSE]
    ELSE IF tgts[target].resolved_value = <<>>
    THEN [ret |-> ValueErr, targets |-> tgts, built |-> FALSE]
    ELSE IF outcome = "Err"
    THEN [ret |-> ValueErr, targets |-> tgts, built |-> FALSE]
    ELSE IF outcome = "build Err"
    THEN [ret |-> ValueErr, targets |-> tgts, built |-> TRUE]
    ELSE [ret |-> ValueOk(ResolvedTarget(target, tgts[target].resolved_value[1])),
          targets |-> [tgts EXCEPT ![target].built_target =
                        <<ResolvedTarget(target, tgts[target].resolved_value[1])>>],
          built |-> TRUE]

\* No scan is under way.
NoScan ==
    /\ root_files = {}
    /\ suffixes = <<>>
    /\ walkdir_result = <<>>
    /\ seen_packages = {}
    /\ resources = <<>>
    /\ out = <<>>
    /\ status = "active"
    /\ scans = 1
    /\ prev_out = <<>>
    /\ failed = <<>>
    /\ pulled_at_end = FALSE
    /\ walk_order = <<>>
    /\ mods_call = <<>>

\* EnvironmentContext::new.
NewEnvironment ==
    /\ targets = <<>>
    /\ targets_order = <<>>
    /\ default_target = <<>>
    /\ default_build_script_target = <<>>
    /\ env_status = "running"
    /\ last_call = [op |-> "new"]
    /\ first_registration = <<>>
    /\ invoked_since = [n \in Targets |-> FALSE]
    /\ built_since = [n \in Targets |-> FALSE]

EnvInit == NoScan /\ NewEnvironment

\* The effect of register_target that left the context ctx.
Registered(ctx) ==
    /\ targets' = ctx.targets
    /\ targets_order' = ctx.targets_order
    /\ default_target' = ctx.default_target
    /\ default_build_script_target' = ctx.default_build_script_target

\* register_target(target, callable, depends, default, default_build_script)
\* evaluated in the environment.
RegisterTarget ==
    /\ env_status = "running"
    /\ \E target \in Targets : \E callable \in Callables :
       \E depends \in DependsLists : \E default, default_build_script \in BOOLEAN :
        /\ Registered(register_target(context, target, callable, depends,
                                      default, default_build_script))
        /\ last_call' = [op |-> "register_target", target |-> target,
                         callable |-> callable, depends |-> depends,
                         default |-> default,
                         default_build_script |-> default_build_script,
                         replaced |-> IF target \in DOMAIN targets
                                      THEN <<targets[target]>>
                                      ELSE <<>>]
        /\ first_registration' =
            IF \E i \in 1..Len(first_registration) : first_registration[i] = target
            THEN first_registration
            ELSE Append(first_registration, target)
        /\ invoked_since' = [invoked_since EXCEPT ![target] = FALSE]
        /\ built_since' = [built_since EXCEPT ![target] = FALSE]
    /\ UNCHANGED <<env_status, scan_vars>>

\* The effect of a call of resolve_target(target) that ended as r.
Resolved(target, call_fails, r) ==
    /\ targets' = r.targets
    /\ env_status' = IF r.ret.kind = "panic" THEN "panicked" ELSE "running"
    /\ last_call' = [op |-> "resolve_target", target |-> target,
                     call_fails |-> call_fails, ret |-> r.ret,
                     invoked |-> r.invoked,
                     follows |-> IF /\ last_call.op = "register_target"
                                    /\ last_call.target = target
                                 THEN last_call.replaced
                                 ELSE <<>>]
    /\ invoked_since' =
        [n \in Targets |->
            invoked_since[n] \/ \E i \in 1..Len(r.invoked) : r.invoked[i].target = n]

\* resolve_target(target) evaluated in the environment.
ResolveTarget ==
    /\ env_status = "running"
    /\ \E target \in Targets : \E call_fails \in BOOLEAN :
       \E nested \in {"panic", "Err"} :
        Resolved(target, call_fails,
                 starlark_resolve_target(target, targets, FALSE, call_fails, nested))
    /\ UNCHANGED <<targets_order, default_target, default_build_script_target,
                   first_registration, built_since, scan_vars>>

\* The effect of a call of build_resolved_target(target) that ended as r.
Built(target, outcome, r) ==
    /\ targets' = r.targets
    /\ last_call' = [op |-> "build_resolved_target", target |-> target,
                     outcome |-> outcome, ret |-> r.ret, built |-> r.built]
    /\ built_since' = [built_since EXCEPT ![target] = built_since[target] \/ r.built]

\* build_resolved_target(target) called on the context.
BuildResolvedTarget ==
    /\ env_status = "running"
    /\ \E target \in Targets : \E outcome \in BuildOutcomes :
        Built(target, outcome, build_resolved_target(targets, target, outcome))
    /\ UNCHANGED <<targets_order, default_target, default_build_script_target,
                   env_status, first_registration, invoked_since, scan_vars>>

EnvNext == RegisterTarget \/ ResolveTarget \/ BuildResolvedTarget

EnvSpec == EnvInit /\ [][EnvNext]_vars

(***************************************************************************)
(* The trees and suffix tables the scans are run on.                       *)
(***************************************************************************)
\* A package, a root-level module and data files.
CoreFiles ==
    { <<"foo", "__init__.py">>, <<"foo", "a.txt">>, <<"foo.py">>, <<"r.txt">> }

\* More modules, a nested package, unusual names.
PkgFiles ==
    { <<"__init__.py">>, <<"foo", "b.py">>, <<"foo", "__init__.x.py">>,
      <<"foo", "bar", "__init__.py">>, <<"foo", "bar", "r.txt">>,
      <<"foo.bar", "r.txt">> }

\* Nested roots and packaging metadata.
RootFiles ==
    { <<"site-packages", "foo", "__init__.py">>,
      <<"site-packages", "foo", "a.txt">>,
      <<"site-packages", "x.egg", "EGG-INFO", "m.py">>,
      <<"site-packages", "x.egg", "foo", "b.py">>,
      <<"x.egg", "foo", "a.txt">>,
      <<"x.dist-info", "METADATA">>,
      <<"x.egg-info", "PKG-INFO">>,
      <<"site-packages", "x.dist-info", "METADATA">> }

\* Extension modules, egg and pth files.
ExtFiles ==
    { <<"bar.so">>, <<"foo", "bar.so">>, <<"foo", "bar.x.so">>,
      <<"foo", "__init__.so">>, <<"foo.egg">>, <<"foo.pth">> }

\* Bytecode.
PycFiles ==
    { <<"foo", "__pycache__", "b.cpython-37.pyc">>,
      <<"foo", "__pycache__", "b.cpython-37.opt-1.pyc">>,
      <<"foo", "__pycache__", "b.cpython-37.opt-2.pyc">>,
      <<"foo", "__pycache__", "__init__.cpython-37.pyc">>,
      <<"__pycache__", "b.cpython-37.pyc">>,
      <<"foo", "b.pyc">>, <<"b.pyc">>, <<"site-packages", "b.pyc">> }

FileGroups == {PkgFiles, RootFiles, ExtFiles, PycFiles}

\* The trees of the unit tests that hold more than one file.
TestTrees ==
    { \* test_source_resolution
      { <<"acme", "__init__.py">>, <<"acme", "a", "__init__.py">>,
        <<"acme", "a", "foo.py">>, <<"acme", "bar", "__init__.py">> },
      \* test_site_packages
      { <<"site-packages", "acme", "__init__.py">>,
        <<"site-packages", "acme", "bar.py">> },
      \* test_extension_module
      { <<"foo.pyd">>, <<"bar.so">>, <<"_cffi_backend.cp37-win_amd64.pyd">>,
        <<"markupsafe", "_speedups.cpython-37m-x86_64-linux-gnu.so">>,
        <<"zstd.cpython-37m-x86_64-linux-gnu.so">> },
      \* test_egg_dir
      { <<"site-packages", "foo-1.0-py3.7.egg", "EGG-INFO", "PKG-INFO">>,
        <<"site-packages", "foo-1.0-py3.7.egg", "foo", "__init__.py">>,
        <<"site-packages", "foo-1.0-py3.7.egg", "foo", "bar.py">> },
      \* test_relative_resource_no_package
      { <<"foo.py">>, <<"resources", "resource.txt">> },
      \* test_relative_package_resource
      { <<"foo", "__init__.py">>, <<"foo", "resource.txt">> },
      \* test_subdirectory_resource
      { <<"foo", "__init__.py">>, <<"foo", "resources", "resource.txt">> } }

\* A path is a file or a directory, never both.
IsPrefix(p, q) == Len(p) < Len(q) /\ SubSeq(q, 1, Len(p)) = p

WellFormed(files) == \A p, q \in files : ~IsPrefix(p, q)

\* Generated trees: up to MaxFiles files of the core and one group.
GeneratedTrees ==
    { t \in UNION { SUBSET (CoreFiles \cup g) : g \in FileGroups } :
        Cardinality(t) <= MaxFiles /\ WellFormed(t) }

\* EMPTY_SUFFIXES.extension of the tests, and the table of test_extension_module.
TestSuffixTables ==
    { <<>>,
      <<".cp37-win_amd64.pyd", ".cp37-win32.pyd",
        ".cpython-37m-x86_64-linux-gnu.so", ".pyd", ".so">> }

\* A short table, most specific suffix first and the other way round.
ShortSuffixTables == { <<".x.so", ".so">>, <<".so", ".x.so">> }

(***************************************************************************)
(* The state machine: scans of one tree, driven by the consumer's pulls.   *)
(***************************************************************************)
\* PythonResourceIterator::new, first scan of a tree.
Init ==
    /\ \/ root_files \in TestTrees /\ suffixes \in TestSuffixTables
       \/ root_files \in GeneratedTrees /\ suffixes \in ShortSuffixTables
    /\ walkdir_result \in WalkOrders(root_files)
    /\ seen_packages = {}
    /\ resources = <<>>
    /\ out = <<>>
    /\ status = "active"
    /\ scans = 1
    /\ prev_out = <<>>
    /\ failed = <<>>
    /\ pulled_at_end = FALSE
    /\ walk_order = walkdir_result
    /\ mods_call = <<>>
    /\ NewEnvironment

\* The effect of a call of next() that ended as n.
Pull(n) ==
    /\ walkdir_result' = n.walk
    /\ seen_packages' = n.seen
    /\ resources' = n.resources
    /\ out' = out \o n.ret
    /\ status' = IF n.panicked THEN "panicked"
                 ELSE IF n.ret = <<>> THEN "done"
                 ELSE "active"
    /\ failed' = n.failed

\* One call of next() by the consumer; the read of any one of the remaining
\* entries may fail.
CallNext ==
    /\ status \in {"active", "done"}
    /\ \E fail \in 0..Len(walkdir_result) :
        Pull(next(walkdir_result, seen_packages, resources, suffixes, fail))
    /\ pulled_at_end' = (pulled_at_end \/ status = "done")
    /\ UNCHANGED <<root_files, suffixes, scans, prev_out, walk_order, mods_call,
                   env_vars>>

\* find_python_resources called again on the same root, after a complete scan.
Rescan ==
    /\ status = "done"
    /\ scans < MaxScans
    /\ walkdir_result' \in WalkOrders(root_files)
    /\ seen_packages' = {}
    /\ resources' = <<>>
    /\ out' = <<>>
    /\ status' = "active"
    /\ scans' = scans + 1
    /\ prev_out' = out
    /\ failed' = <<>>
    /\ pulled_at_end' = FALSE
    /\ walk_order' = walkdir_result'
    /\ UNCHANGED <<root_files, suffixes, mods_call, env_vars>>

\* The source files of the tree: the files find_python_modules reads.
SourceFiles == {p \in root_files : extension(p) = <<"py">>}

\* find_python_modules called on the root, with an iterator of its own; the
\* read of one of the entries, and of one of the source files, may fail.
FindPythonModules ==
    /\ mods_call = <<>>
    /\ \E walk \in WalkOrders(root_files) :
       \E fail \in 0..Len(walk) :
       \E unreadable \in {{}} \cup {{p} : p \in SourceFiles} :
        mods_call' =
            <<[unreadable |-> unreadable,
               ret |-> find_python_modules(walk, suffixes, fail, unreadable)]>>
    /\ UNCHANGED <<root_files, suffixes, walkdir_result, seen_packages, resources,
                   out, status, scans, prev_out, failed, pulled_at_end, walk_order,
                   env_vars>>

Next == CallNext \/ Rescan

Spec == Init /\ [][Next]_vars

\* The consumer that maps the modules of a tree instead of iterating over it.
ModsNext == FindPythonModules

ModsSpec == Init /\ [][ModsNext]_vars

(***************************************************************************)
(* Vocabulary of the properties.                                           *)
(***************************************************************************)
Indices == 1..Len(out)

IsData(r) == r.kind = "Resource"

IsModule(r) == r.kind \in {"Source", "Bytecode", "ExtensionModule"}

\* The order in which the walker of the current scan visits the files.
Walk == walk_order

\* Position of file p in the walk.
WalkIndex(p) == CHOOSE i \in 1..Len(Walk) : Walk[i] = p

\* Directory components that end with ".egg".
EggDirs(p) == {i \in 1..(Len(p) - 1) : ends_with(p[i], ".egg")}

\* The components after the first ".egg" directory, all of them without one.
AfterEgg(p) ==
    IF EggDirs(p) = {} THEN p
    ELSE LET first == CHOOSE i \in EggDirs(p) : \A j \in EggDirs(p) : i <= j
         IN  SubSeq(p, first + 1, Len(p))

\* The canonical relative path of the file at raw path p: relative to
\* <root>/site-packages when that is its first component, then relative to its
\* first ".egg" directory.
Canonical(p) == AfterEgg(IF p[1] = "site-packages" THEN Tail(p) ELSE p)

\* Dotted name of module m in the directory dirs.
DottedName(dirs, m) ==
    IF m = "__init__" THEN join(dirs, ".") ELSE join(Append(dirs, m), ".")

\* The file at raw path p is packaging metadata that the scan excludes.
IsExcluded(p) ==
    \/ ends_with(p[1], ".dist-info")
    \/ ends_with(p[1], ".egg-info")
    \/ /\ EggDirs(IF p[1] = "site-packages" THEN Tail(p) ELSE p) # {}
       /\ Canonical(p)[1] = "EGG-INFO"

\* File p is the file of a yielded record.
Yielded(p) == \E i \in Indices : out[i].path = p

\* File p is buffered as a pending resource.
Buffered(p) == \E i \in 1..Len(resources) : resources[i].full_path = p

\* The directly classified records of a walk, in walk order.
RECURSIVE DirectRecords(_, _)
DirectRecords(walk, sfx) ==
    IF Len(walk) = 0 THEN <<>>
    ELSE LET it == resolve_dir_entry(Head(walk), sfx).item
         IN  (IF it # <<>> /\ it[1].kind # "ResourceFile" THEN it ELSE <<>>)
             \o DirectRecords(Tail(walk), sfx)

\* The buffered files of a walk, in walk order (the order of buffering).
RECURSIVE BufferedFiles(_, _)
BufferedFiles(walk, sfx) ==
    IF Len(walk) = 0 THEN <<>>
    ELSE LET it == resolve_dir_entry(Head(walk), sfx).item
         IN  (IF it # <<>> /\ it[1].kind = "ResourceFile"
              THEN <<[full_path |-> it[1].full_path,
                      relative_path |-> it[1].relative_path]>>
              ELSE <<>>)
             \o BufferedFiles(Tail(walk), sfx)

\* The data resources that the buffered files pending resolve to against registry.
RECURSIVE DataRecords(_, _)
DataRecords(pending, registry) ==
    IF Len(pending) = 0 THEN <<>>
    ELSE resolve_resource(Head(pending), registry) \o DataRecords(Tail(pending), registry)

\* Every package name that classifying the files of the tree registers.
AllPackages == UNION {resolve_dir_entry(p, suffixes).packages : p \in root_files}

(***************************************************************************)
(* C1.  In every complete scan the output is all directly classified       *)
(* records in the order the walker visits their files, followed by all     *)
(* resolved data resources in the order their files were buffered; no      *)
(* DataResource comes before a directly classified record.                 *)
(***************************************************************************)
C1_OutputOrder ==
    status = "done" =>
        /\ out = DirectRecords(Walk, suffixes)
                 \o DataRecords(BufferedFiles(Walk, suffixes), AllPackages)
        /\ \A i, j \in Indices : i < j /\ IsData(out[i]) => IsData(out[j])

\* A complete scan that yielded two data resources, one of them for a file the
\* walker visited before the file of a directly classified record.
C1_Witness ==
    /\ status = "done"
    /\ \E i, j, k \in Indices :
        /\ ~IsData(out[i]) /\ IsData(out[j]) /\ IsData(out[k]) /\ j < k
        /\ WalkIndex(out[j].path) < WalkIndex(out[i].path)

(***************************************************************************)
(* C2.  For every yielded DataResource, leaf_package is in the registry    *)
(* and is the longest dot-joined prefix of the parent-directory components *)
(* of the canonical relative path that is in the registry; relative_name   *)
(* is the remaining components, file name included, joined with '/'.       *)
(***************************************************************************)
\* The lengths of the prefixes of dirs whose dotted name is registered.
RegisteredPrefixes(dirs) ==
    {k \in 0..Len(dirs) : join(SubSeq(dirs, 1, k), ".") \in seen_packages}

LongestPrefixOwner(r) ==
    LET c    == Canonical(r.path)
        dirs == parent(c)
    IN  /\ r.leaf_package \in seen_packages
        /\ \E k \in RegisteredPrefixes(dirs) :
            /\ \A j \in RegisteredPrefixes(dirs) : j <= k
            /\ r.leaf_package = join(SubSeq(dirs, 1, k), ".")
            /\ r.relative_name = join(SubSeq(c, k + 1, Len(c)), "/")

\* C2: every yielded DataResource is owned by the longest registered
\* package prefix of its directory, and relative_name is the remainder.
C2_LeafPackage ==
    \A i \in Indices : IsData(out[i]) => LongestPrefixOwner(out[i])

\* A data resource below two registered packages, owned by the inner one.
C2_Witness ==
    \E i \in Indices :
        /\ IsData(out[i])
        /\ Cardinality(RegisteredPrefixes(parent(Canonical(out[i].path))) \ {0}) >= 2

(***************************************************************************)
(* C3.  A data file is never yielded as a DataResource unless its parent   *)
(* directory or one of its ancestor directories below the canonical root   *)
(* directly holds a classified module (a source or extension module in it, *)
(* or bytecode in its __pycache__); a root-level module makes no           *)
(* subdirectory's data files addressable.                                  *)
(***************************************************************************)
\* Directory dir (canonical components) directly holds the module file q.
HoldsModule(dir, q) ==
    LET it == resolve_dir_entry(q, suffixes).item
    IN  /\ it # <<>>
        /\ \/ /\ it[1].kind \in {"Source", "ExtensionModule"}
              /\ parent(Canonical(q)) = dir
           \/ /\ it[1].kind = "Bytecode"
              /\ parent(Canonical(q)) = Append(dir, "__pycache__")

InPackageDirectory(r) ==
    LET dirs == parent(Canonical(r.path))
    IN  \E k \in 1..Len(dirs) : \E q \in root_files :
            HoldsModule(SubSeq(dirs, 1, k), q)

\* C3: every yielded DataResource lies in a directory with a module in it
\* or in a descendant of such a directory.
C3_OnlyInPackages ==
    \A i \in Indices : IsData(out[i]) => InPackageDirectory(out[i])
(***************************************************************************)
(* C4.  A `.py` file at canonical relative path d1/.../dn/f.py is yielded  *)
(* as a SourceModule named d1.....dn.f, or d1.....dn when f is __init__;   *)
(* modules are yielded in walker order, so the tree of                     *)
(* test_source_resolution yields acme, acme.a, acme.a.foo, acme.bar.       *)
(***************************************************************************)
\* File p reaches the classifier as a `.py` file that is no extension module.
IsSourceFile(p) ==
    /\ ~IsExcluded(p)
    /\ ends_with(file_name(p), ".py")
    /\ Len(file_name(p)) > Len(".py")
    /\ \A i \in 1..Len(suffixes) : ~ends_with(file_name(p), suffixes[i])

\* The name of the claim for the file at canonical path c: f is the file name
\* without its ".py".
SourceName(c) ==
    DottedName(parent(c), SubSeq(file_name(c), 1, Len(file_name(c)) - Len(".py")))

Names(records) == [i \in 1..Len(records) |-> records[i].name]

AcmeTree ==
    { <<"acme", "__init__.py">>, <<"acme", "a", "__init__.py">>,
      <<"acme", "a", "foo.py">>, <<"acme", "bar", "__init__.py">> }

\* C4: every .py file is yielded as a SourceModule named by its directory
\* components and stem, `__init__` contributing no segment.
C4_SourceNames ==
    /\ \A i \in Indices :
        out[i].kind = "Source" => out[i].name = SourceName(Canonical(out[i].path))
    /\ \A i, j \in Indices :
        out[i].kind = "Source" /\ out[j].kind = "Source" /\ i < j
            => WalkIndex(out[i].path) < WalkIndex(out[j].path)
    /\ status = "done" =>
        /\ \A p \in root_files :
            IsSourceFile(p) => \E i \in Indices :
                out[i].kind = "Source" /\ out[i].path = p
        /\ root_files = AcmeTree =>
            Names(out) = <<"acme", "acme.a", "acme.a.foo", "acme.bar">>

\* The complete scan of the tree of test_source_resolution.
C4_Witness ==
    status = "done" /\ root_files = AcmeTree /\ Len(out) = 4

(***************************************************************************)
(* C5.  For every file whose first raw path component is `site-packages`,  *)
(* that component contributes no segment to any derived name: all names    *)
(* are computed from the path relative to <root>/site-packages.            *)
(***************************************************************************)
\* The names of record r are those of a file at canonical path c.
NamedFrom(r, c) ==
    LET dirs == parent(c)
    IN  CASE r.kind = "Source" -> r.name = SourceName(c)
          [] r.kind = "ExtensionModule" ->
                /\ r.full_name = DottedName(dirs,
                        SubSeq(file_name(c), 1,
                               Len(file_name(c)) - Len(r.extension_file_suffix)))
                /\ r.package = IF Len(dirs) = 0 THEN r.full_name ELSE join(dirs, ".")
          [] r.kind = "Bytecode" ->
                \E m \in {SubSeq(file_name(c), 1, k) : k \in 0..Len(file_name(c))} :
                    r.name = DottedName(SubSeq(c, 1, Len(c) - 2), m)
          [] r.kind = "Other" ->
                r.package = join(dirs, ".") /\ r.full_name = join(c, ".")
          [] r.kind = "Resource" ->
                /\ r.full_name = join(c, "/")
                /\ \E k \in 1..Len(dirs) :
                    /\ r.leaf_package = join(SubSeq(c, 1, k), ".")
                    /\ r.relative_name = join(SubSeq(c, k + 1, Len(c)), "/")
          [] OTHER -> TRUE

SitePackagesTree ==
    { <<"site-packages", "acme", "__init__.py">>,
      <<"site-packages", "acme", "bar.py">> }

\* C5: names of files under site-packages are computed from the path
\* relative to that directory.
C5_SitePackages ==
    /\ \A i \in Indices :
        out[i].path[1] = "site-packages"
            => NamedFrom(out[i], AfterEgg(Tail(out[i].path)))
    /\ status = "done" /\ root_files = SitePackagesTree
            => Names(out) = <<"acme", "acme.bar">>

\* A module and a data resource have been yielded for files below site-packages.
C5_Witness ==
    /\ \E i \in Indices : out[i].path[1] = "site-packages" /\ IsModule(out[i])
    /\ \E i \in Indices : out[i].path[1] = "site-packages" /\ IsData(out[i])

(***************************************************************************)
(* C6.  For a file with a directory component ending in `.egg` (with or    *)
(* without a leading site-packages), all names are derived from the        *)
(* components after the first such component; a file whose first component *)
(* after that egg root is EGG-INFO is never yielded, never buffered and    *)
(* registers no package.                                                   *)
(***************************************************************************)
IsEggInfo(p) == EggDirs(p) # {} /\ AfterEgg(p)[1] = "EGG-INFO"

EggDirTree ==
    { <<"site-packages", "foo-1.0-py3.7.egg", "EGG-INFO", "PKG-INFO">>,
      <<"site-packages", "foo-1.0-py3.7.egg", "foo", "__init__.py">>,
      <<"site-packages", "foo-1.0-py3.7.egg", "foo", "bar.py">> }

\* C6: names of files under a .egg directory are computed from the
\* components after it, and EGG-INFO files are never yielded.
C6_EggRoot ==
    /\ \A i \in Indices :
        EggDirs(out[i].path) # {} => NamedFrom(out[i], AfterEgg(out[i].path))
    /\ \A p \in root_files :
        IsEggInfo(p) => ~Yielded(p) /\ ~Buffered(p)
    /\ \A pkg \in seen_packages : \E p \in root_files :
        ~IsEggInfo(p) /\ pkg \in resolve_dir_entry(p, suffixes).packages
    /\ status = "done" /\ root_files = EggDirTree
            => Names(out) = <<"foo", "foo.bar">>

\* A complete scan of a tree with an EGG-INFO module, a module in an egg below
\* site-packages and a data resource in an egg below the root.
C6_Witness ==
    /\ status = "done"
    /\ \E p \in root_files : IsEggInfo(p) /\ ends_with(file_name(p), ".py")
    /\ \E i \in Indices :
        EggDirs(out[i].path) # {} /\ out[i].path[1] = "site-packages"
        /\ IsModule(out[i])
    /\ \E i \in Indices :
        EggDirs(out[i].path) # {} /\ out[i].path[1] # "site-packages"
        /\ IsData(out[i])
(***************************************************************************)
(* C7.  A file whose name ends with at least one suffix of the extension   *)
(* list is yielded as an ExtensionModule tagged with the first suffix, in  *)
(* table order, that its name ends with; its module name is the file name  *)
(* with exactly that suffix removed, so with the table of                  *)
(* test_extension_module `_speedups.cpython-37m-x86_64-linux-gnu.so` in    *)
(* `markupsafe/` gets full_name `markupsafe._speedups`.                    *)
(***************************************************************************)
\* The positions of the table's suffixes that the name ends with.
MatchingSuffixes(name) == {k \in 1..Len(suffixes) : ends_with(name, suffixes[k])}

\* File p reaches the classifier with a name that ends with a suffix of the table.
IsExtensionFile(p) == ~IsExcluded(p) /\ MatchingSuffixes(file_name(p)) # {}

TaggedWithFirstSuffix(r) ==
    LET c    == Canonical(r.path)
        name == file_name(c)
    IN  /\ \E k \in MatchingSuffixes(name) :
            /\ \A j \in MatchingSuffixes(name) : k <= j
            /\ r.extension_file_suffix = suffixes[k]
        /\ r.full_name =
            DottedName(parent(c),
                       SubSeq(name, 1, Len(name) - Len(r.extension_file_suffix)))

ExtensionTree ==
    { <<"foo.pyd">>, <<"bar.so">>, <<"_cffi_backend.cp37-win_amd64.pyd">>,
      <<"markupsafe", "_speedups.cpython-37m-x86_64-linux-gnu.so">>,
      <<"zstd.cpython-37m-x86_64-linux-gnu.so">> }

\* C7: a file matching a configured suffix is yielded as an
\* ExtensionModule tagged with the first matching suffix in table order.
C7_ExtensionSuffix ==
    /\ \A i \in Indices :
        out[i].kind = "ExtensionModule" => TaggedWithFirstSuffix(out[i])
    /\ status = "done" =>
        /\ \A p \in root_files :
            IsExtensionFile(p) => \E i \in Indices :
                out[i].kind = "ExtensionModule" /\ out[i].path = p
        /\ root_files = ExtensionTree /\ Len(suffixes) = 5 =>
            /\ [i \in Indices |-> out[i].full_name] =
                <<"_cffi_backend", "bar", "foo", "markupsafe._speedups", "zstd">>
            /\ out[4].extension_file_suffix = ".cpython-37m-x86_64-linux-gnu.so"

\* An extension module has been yielded whose file name ends with two suffixes
\* of the table, the shorter of them first in the table.
C7_Witness ==
    \E i \in Indices :
        /\ out[i].kind = "ExtensionModule"
        /\ Cardinality(MatchingSuffixes(file_name(out[i].path))) >= 2
        /\ out[i].extension_file_suffix = ".so"

C9_IsPackageIffInit ==
    \A i \in Indices :
        out[i].kind = "Source" =>
            /\ out[i].is_package <=> (file_stem(out[i].path) = "__init__")
            /\ out[i].is_package <=>
                (out[i].name = join(parent(Canonical(out[i].path)), "."))

(***************************************************************************)
(* C10.  Within one scan no two yielded DataResource records have the same *)
(* full_name, and each full_name is the '/'-joined canonical relative path *)
(* of its file from its (possibly rewritten) root.                         *)
(***************************************************************************)
C10_UniqueFullNames ==
    /\ \A i \in Indices :
        IsData(out[i]) => out[i].full_name = join(Canonical(out[i].path), "/")
    /\ \A i, j \in Indices :
        IsData(out[i]) /\ IsData(out[j]) /\ i # j
            => out[i].full_name # out[j].full_name

(***************************************************************************)
(* C11.  No file below a directory whose name ends with `.dist-info` or    *)
(* `.egg-info`, or below the EGG-INFO directory of an unpacked egg, is     *)
(* ever yielded, buffered as pending or registers a package, whether the   *)
(* metadata directory lies directly under the scan root or directly under  *)
(* the nested root site-packages.                                          *)
(***************************************************************************)
\* The path of p relative to the root it lies in: <root>/site-packages or <root>.
BelowRoot(p) == IF p[1] = "site-packages" THEN Tail(p) ELSE p

\* File p lies below a metadata directory that is directly under its root, or
\* below the EGG-INFO directory of an unpacked egg.
IsMetadata(p) ==
    \/ /\ Len(BelowRoot(p)) >= 2
       /\ \/ ends_with(BelowRoot(p)[1], ".dist-info")
          \/ ends_with(BelowRoot(p)[1], ".egg-info")
    \/ /\ EggDirs(BelowRoot(p)) # {}
       /\ AfterEgg(BelowRoot(p))[1] = "EGG-INFO"

\* C11: metadata files are never yielded, never buffered and register nothing.
C11_MetadataExcluded ==
    /\ status # "panicked" =>
        \A p \in root_files : IsMetadata(p) => ~Yielded(p) /\ ~Buffered(p)
    /\ \A pkg \in seen_packages : \E p \in root_files :
        ~IsMetadata(p) /\ pkg \in resolve_dir_entry(p, suffixes).packages

(***************************************************************************)
(* C12.  find_python_modules(root) returns a mapping whose key set is      *)
(* exactly the set of names of the SourceModule records that the scan of   *)
(* root yields (no key for bytecode, extension, egg, pth, Other or data    *)
(* records), each key mapped to the content of a source file classified    *)
(* under that name; if the read of a source module fails it returns an     *)
(* error and no mapping.                                                   *)
(***************************************************************************)
Range(seq) == {seq[i] : i \in 1..Len(seq)}

\* The SourceModule records that a scan of the tree yields.
SourceRecords == {r \in Range(DirectRecords(Walk, suffixes)) : r.kind = "Source"}

MappingOfSources(ret) ==
    /\ DOMAIN ret.value = {r.name : r \in SourceRecords}
    /\ \A k \in DOMAIN ret.value : \E r \in SourceRecords :
        r.name = k /\ ret.value[k] = source_data(r.path)

\* C12: Ok carries exactly the names of the scan's source modules with the
\* content of such a module, and a failed read of a source module gives Err.
C12_ModuleMapping ==
    mods_call # <<>> =>
        /\ mods_call[1].ret.result = "Ok" =>
            /\ MappingOfSources(mods_call[1].ret)
            /\ \A r \in SourceRecords : r.path \notin mods_call[1].unreadable
        /\ /\ \E r \in SourceRecords : r.path \in mods_call[1].unreadable
           /\ mods_call[1].ret.result # "panicked"
           => mods_call[1].ret = [result |-> "Err"]

\* find_python_modules returned a mapping with two keys for a tree that also
\* holds a file that is no source module.
C12_Witness ==
    /\ mods_call # <<>>
    /\ mods_call[1].ret.result = "Ok"
    /\ Cardinality(DOMAIN mods_call[1].ret.value) >= 2
    /\ Cardinality(root_files) > Cardinality(SourceRecords)

(***************************************************************************)
(* C13.  The sequence is one-shot: once a pull has returned                *)
(* end-of-sequence, every later pull on the same scan also returns         *)
(* end-of-sequence, yields no record, and neither walks the tree again nor *)
(* changes the registry.                                                   *)
(***************************************************************************)
\* A step of the scan that has ended (a step that starts no new scan) leaves
\* the scan ended, and its output, walker, buffer and registry as they are.
EndedStaysEnded ==
    status = "done" /\ scans' = scans =>
        /\ status' = "done"
        /\ out' = out
        /\ walkdir_result' = <<>>
        /\ resources' = resources
        /\ seen_packages' = seen_packages

\* C13: every pull after end-of-sequence returns end-of-sequence and changes
\* nothing of the scan.
C13_OneShot == [][EndedStaysEnded]_vars

\* A pull was made after the end of a scan that yielded records and dropped a
\* pending resource: the scan is still ended.
C13_Witness ==
    /\ pulled_at_end
    /\ status = "done"
    /\ \E i \in Indices : IsData(out[i])
    /\ \E p \in root_files : ~Yielded(p)

(***************************************************************************)
(* C14.  A failure to read a directory entry during traversal aborts the   *)
(* scan at that pull: the entry is not skipped, and no record (module or   *)
(* data resource) is yielded after the failure.                            *)
(***************************************************************************)
\* The scan has stopped at entry p: p is still the walker's next entry, and
\* all that was yielded are directly classified records of files before p.
AbortedAt(p) ==
    /\ status = "panicked"
    /\ walkdir_result # <<>> /\ Head(walkdir_result) = p
    /\ ~Yielded(p) /\ ~Buffered(p)
    /\ \A i \in Indices :
        ~IsData(out[i]) /\ WalkIndex(out[i].path) < WalkIndex(p)

\* C14: when the read of an entry has failed, the scan is aborted at that entry.
C14_ReadFailureAborts == failed # <<>> => AbortedAt(failed[1])

\* The read of an entry failed after a record was yielded and a file buffered.
C14_Witness ==
    /\ failed # <<>>
    /\ out # <<>>
    /\ resources # <<>>

(***************************************************************************)
(* C15.  A `.pyc` file whose canonical relative path (after the            *)
(* site-packages and egg rewrites) has fewer than two components aborts    *)
(* the scan with a fatal error: it is neither yielded nor skipped, and no  *)
(* further record is yielded.                                              *)
(***************************************************************************)
\* File p reaches the `.pyc` arm of the classifier with fewer than two components.
IsShortPyc(p) ==
    /\ ~IsExcluded(p)
    /\ Len(Canonical(p)) < 2
    /\ extension(Canonical(p)) = <<"pyc">>
    /\ MatchingSuffixes(file_name(p)) = {}

\* All that the scan has yielded comes from files before p, the scan does not
\* get to its end, and it is dead once the walker has delivered p.
FatalAt(p) ==
    /\ ~Yielded(p) /\ ~Buffered(p)
    /\ status # "done"
    /\ \A i \in Indices :
        ~IsData(out[i]) /\ WalkIndex(out[i].path) < WalkIndex(p)
    /\ (\A i \in 1..Len(walkdir_result) : walkdir_result[i] # p)
        => status = "panicked" /\ failed = <<>>

\* C15: a `.pyc` file with fewer than two components is fatal to the scan.
C15_ShortPycAborts == \A p \in root_files : IsShortPyc(p) => FatalAt(p)

\* The scan died on a short `.pyc` file after it had yielded a record, with
\* entries left in the walker.
C15_Witness ==
    /\ status = "panicked" /\ failed = <<>>
    /\ \E p \in root_files : IsShortPyc(p)
    /\ out # <<>>
    /\ walkdir_result # <<>>

(***************************************************************************)
(* C16.  A file with extension `.egg` or `.pth` that matches no            *)
(* extension-module suffix is yielded immediately as an EggFile / PthFile  *)
(* record carrying only its path; it adds nothing to the package registry  *)
(* and is never buffered as a pending resource.                            *)
(***************************************************************************)
\* File p reaches the `.egg` / `.pth` arms of the classifier.
IsEggOrPthFile(p) ==
    /\ ~IsExcluded(p)
    /\ extension(Canonical(p)) \in {<<"egg">>, <<"pth">>}
    /\ MatchingSuffixes(file_name(p)) = {}

\* The record of the claim for file p.
EggOrPthRecord(p) ==
    [kind |-> IF extension(Canonical(p)) = <<"egg">> THEN "EggFile" ELSE "PthFile",
     path |-> p]

\* The walker of the current scan has delivered file p.
Delivered(p) == \A i \in 1..Len(walkdir_result) : walkdir_result[i] # p

\* C16: an egg or pth file is yielded, as a record of its path only, by the
\* pull that takes it from the walker; it is never buffered and the registry
\* holds only names that other files register.
C16_EggPthFiles ==
    /\ \A p \in root_files :
        IsEggOrPthFile(p) =>
            /\ ~Buffered(p)
            /\ Delivered(p) => \E i \in Indices : out[i] = EggOrPthRecord(p)
    /\ \A pkg \in seen_packages : \E p \in root_files :
        ~IsEggOrPthFile(p) /\ pkg \in resolve_dir_entry(p, suffixes).packages

\* An EggFile and a PthFile have been yielded in a scan that registered a package.
C16_Witness ==
    /\ \E i, j \in Indices : out[i].kind = "EggFile" /\ out[j].kind = "PthFile"
    /\ seen_packages # {}

(***************************************************************************)
(* C17.  Once resolve_target has stored a resolved value for a target,     *)
(* every later resolve_target call for that target returns that same value *)
(* without invoking the target's callable and without resolving its        *)
(* dependencies, so between two registrations of a name its callable is    *)
(* invoked at most once.                                                   *)
(***************************************************************************)
\* The step is a call of resolve_target(t).
IsResolveOf(t) == last_call'.op = "resolve_target" /\ last_call'.target = t

\* Target t holds a resolved value.
IsResolved(t) == t \in DOMAIN targets /\ targets[t].resolved_value # <<>>

\* A call of resolve_target on a resolved target returns the stored value,
\* invokes no callable (its own or a dependency's) and leaves the targets alone.
CachedReturn ==
    \A t \in Targets :
        IsResolveOf(t) /\ IsResolved(t) =>
            /\ last_call'.ret = ValueOk(targets[t].resolved_value[1])
            /\ last_call'.invoked = <<>>
            /\ targets' = targets

\* The callables a call of resolve_target invokes were not invoked before,
\* since the registration of their targets.
InvokedOnce ==
    last_call'.op = "resolve_target" =>
        \A i \in 1..Len(last_call'.invoked) :
            ~invoked_since[last_call'.invoked[i].target]

\* The callables a call of resolve_target invokes belong to targets that hold
\* no resolved value.
InvokedWhileUnresolved ==
    last_call'.op = "resolve_target" =>
        \A i \in 1..Len(last_call'.invoked) :
            ~IsResolved(last_call'.invoked[i].target)

\* C17 as stated: the cached value is returned without an invocation, and a
\* callable is invoked at most once between two registrations of its name.
C17_InvokedAtMostOnce == [][CachedReturn /\ InvokedOnce]_vars

\* C17 amended: the cached value is returned without an invocation, and a
\* callable is invoked only while its target holds no resolved value (a
\* callable whose call failed is invoked again by the next resolve_target).
C17_CachedValue == [][CachedReturn /\ InvokedWhileUnresolved]_vars

\* resolve_target has returned the stored value of a target whose callable
\* was invoked before and was not invoked by this call.
C17_Witness ==
    /\ last_call.op = "resolve_target"
    /\ last_call.ret.kind = "Ok"
    /\ last_call.invoked = <<>>
    /\ invoked_since[last_call.target]
    /\ targets[last_call.target].resolved_value = <<last_call.ret.value>>

(***************************************************************************)
(* C18.  resolve_target on a registered, not yet resolved target resolves  *)
(* every target of its depends list, in list order, before it invokes the  *)
(* target's own callable, passes the dependencies' resolved values as the  *)
(* callable's positional arguments in that order, and then stores and      *)
(* returns the callable's result as the target's resolved value.           *)
(***************************************************************************)
\* Target t is registered and unresolved, and each of its dependencies is a
\* registered target without dependencies of its own.
HasPlainDepends(t) ==
    /\ t \in DOMAIN targets
    /\ ~IsResolved(t)
    /\ \A i \in 1..Len(targets[t].depends) :
        /\ targets[t].depends[i] \in DOMAIN targets
        /\ targets[targets[t].depends[i]].depends = <<>>

\* The resolved value of the plain dependency d: the stored one, or what its
\* callable returns.
ValueOfDepend(d) ==
    IF IsResolved(d) THEN targets[d].resolved_value[1]
    ELSE call(targets[d].callable, <<>>)

\* The positional arguments of the callable of t.
ArgsOf(t) ==
    [i \in 1..Len(targets[t].depends) |-> ValueOfDepend(targets[t].depends[i])]

\* The invocations that resolving the dependencies deps makes, in list order.
RECURSIVE InvocationsOf(_)
InvocationsOf(deps) ==
    IF deps = <<>> THEN <<>>
    ELSE (IF IsResolved(Head(deps)) THEN <<>>
          ELSE <<[target |-> Head(deps), callable |-> targets[Head(deps)].callable,
                  args |-> <<>>]>>)
         \o InvocationsOf(Tail(deps))

DependsThenCallable(t) ==
    /\ last_call'.invoked =
        Append(InvocationsOf(targets[t].depends),
               [target |-> t, callable |-> targets[t].callable, args |-> ArgsOf(t)])
    /\ last_call'.ret = ValueOk(call(targets[t].callable, ArgsOf(t)))
    /\ targets'[t].resolved_value = <<call(targets[t].callable, ArgsOf(t))>>
    /\ \A i \in 1..Len(targets[t].depends) :
        targets'[targets[t].depends[i]].resolved_value =
            <<ValueOfDepend(targets[t].depends[i])>>

\* C18: a call of resolve_target on an unresolved target whose callables do
\* not fail resolves the dependencies in list order, then calls the callable
\* with their values, stores the result and returns it.
C18_DependsFirst ==
    [][\A t \in Targets :
        IsResolveOf(t) /\ HasPlainDepends(t) /\ ~last_call'.call_fails
            => DependsThenCallable(t)]_vars

(***************************************************************************)
(* C19.  After any sequence of register_target calls, targets_order        *)
(* contains each registered target name exactly once, in order of first    *)
(* registration, and its set of names equals the key set of targets        *)
(* (re-registering a name neither duplicates nor moves it).                *)
(***************************************************************************)
C19_TargetsOrder ==
    /\ targets_order = first_registration
    /\ \A i, j \in 1..Len(targets_order) :
        targets_order[i] = targets_order[j] => i = j
    /\ Range(targets_order) = DOMAIN targets

\* The name registered first has just been registered again, after a second
\* name was registered.
C19_Witness ==
    /\ last_call.op = "register_target"
    /\ Len(targets_order) = 2
    /\ last_call.target = targets_order[1]

(***************************************************************************)
(* C20.  The first registered target becomes default_target and            *)
(* default_build_script_target whatever its flags; a later register_target *)
(* sets default_target if and only if it is called with default=True (and  *)
(* default_build_script_target iff default_build_script=True), to the name *)
(* being registered.  Hence whenever at least one target is registered,    *)
(* both defaults name a registered target.                                 *)
(***************************************************************************)
\* What a step that calls register_target does to the defaults.
DefaultsOfRegistration ==
    last_call'.op = "register_target" =>
        /\ default_target' =
            IF default_target = <<>> \/ last_call'.default
            THEN <<last_call'.target>>
            ELSE default_target
        /\ default_build_script_target' =
            IF default_build_script_target = <<>> \/ last_call'.default_build_script
            THEN <<last_call'.target>>
            ELSE default_build_script_target

\* After the step both defaults name a registered target, if there is one.
DefaultsRegistered ==
    DOMAIN targets' # {} =>
        /\ default_target' # <<>>
        /\ default_target'[1] \in DOMAIN targets'
        /\ default_build_script_target' # <<>>
        /\ default_build_script_target'[1] \in DOMAIN targets'

\* C20: registrations set the defaults by their flags, the first one always,
\* other calls leave them alone, and the defaults name registered targets.
C20_Defaults ==
    [][/\ DefaultsOfRegistration
       /\ last_call'.op # "register_target" =>
            UNCHANGED <<default_target, default_build_script_target>>
       /\ DefaultsRegistered]_vars

\* A second target has just been registered with default_build_script=True
\* and default=False: the first one is still the default target.
C20_Witness ==
    /\ last_call.op = "register_target"
    /\ ~last_call.default /\ last_call.default_build_script
    /\ Len(targets_order) = 2
    /\ last_call.target = targets_order[2]
    /\ default_target = <<targets_order[1]>>
    /\ default_build_script_target = <<targets_order[2]>>

(***************************************************************************)
(* C21.  No pending data file is resolved before the walker is exhausted:  *)
(* each data file's leaf_package is computed against the registry that     *)
(* contains the package of every module and extension module of the whole  *)
(* tree, so a data file whose enclosing package is declared only by a      *)
(* module the walker visits after it (e.g. foo/a.txt before foo/b.py) is   *)
(* still yielded with that package as leaf_package.                        *)
(***************************************************************************)
\* File p is classified as a resource file, to be buffered.
IsPending(p) ==
    LET it == resolve_dir_entry(p, suffixes).item
    IN  it # <<>> /\ it[1].kind = "ResourceFile"

\* What the resource file p resolves to against the registry of the whole tree.
ResolvedInTree(p) ==
    resolve_resource(resolve_dir_entry(p, suffixes).item[1], AllPackages)

LateTree == { <<"foo", "a.txt">>, <<"foo", "b.py">> }

\* C21: a data resource is yielded only once the walker is exhausted and the
\* registry is that of the whole tree, and it is what its file resolves to
\* against that registry; a complete scan has yielded every file that resolves.
C21_ResolvedAfterWalk ==
    /\ \A i \in Indices :
        IsData(out[i]) =>
            /\ walkdir_result = <<>>
            /\ seen_packages = AllPackages
            /\ IsPending(out[i].path)
            /\ <<out[i]>> = ResolvedInTree(out[i].path)
    /\ status = "done" =>
        /\ \A p \in root_files :
            IsPending(p) /\ ResolvedInTree(p) # <<>> => Yielded(p)
        /\ root_files = LateTree =>
            \E i \in Indices :
                /\ out[i].path = <<"foo", "a.txt">>
                /\ out[i].leaf_package = "foo"

\* A data resource has been yielded whose leaf_package is registered by a
\* module of its own directory, and only by files that the walker visits after
\* the data file.
C21_Witness ==
    \E i \in Indices :
        /\ IsData(out[i])
        /\ \E q \in root_files :
            /\ parent(q) = parent(out[i].path)
            /\ out[i].leaf_package \in resolve_dir_entry(q, suffixes).packages
        /\ \A q \in root_files :
            out[i].leaf_package \in resolve_dir_entry(q, suffixes).packages
                => WalkIndex(out[i].path) < WalkIndex(q)

(***************************************************************************)
(* C22.  A pending data file is dropped if and only if no prefix of its    *)
(* parent-directory components, the empty prefix included, is a registered *)
(* package: prefixes are tested from the full parent path down to the      *)
(* empty prefix, so when the empty package name is registered and no       *)
(* longer prefix matches, the file is yielded with the empty name as       *)
(* leaf_package and its whole relative path as relative_name.              *)
(***************************************************************************)
\* The data resource of file p owned by the prefix of length k of its directory.
OwnedBy(p, k) ==
    \E i \in Indices :
        /\ IsData(out[i]) /\ out[i].path = p
        /\ out[i].leaf_package = join(SubSeq(Canonical(p), 1, k), ".")
        /\ out[i].relative_name =
            join(SubSeq(Canonical(p), k + 1, Len(Canonical(p))), "/")

\* In a complete scan the pending file p is dropped iff none of the prefix
\* lengths `tested` is registered, and is otherwise owned by the longest one.
DroppedIffNone(p, tested) ==
    LET found == RegisteredPrefixes(parent(Canonical(p))) \cap tested
    IN  /\ ~Yielded(p) <=> found = {}
        /\ \A k \in found : (\A j \in found : j <= k) => OwnedBy(p, k)

\* C22 as stated: the empty prefix is tested as well.
C22_DroppedIffNoPrefix ==
    status = "done" =>
        \A p \in root_files :
            IsPending(p) => DroppedIffNone(p, 0..Len(parent(Canonical(p))))

\* C22 as the code has it: the prefixes tested are the non-empty ones, so a
\* file whose only registered prefix is the empty one is dropped.
C22_DroppedIffNoNamedPrefix ==
    status = "done" =>
        \A p \in root_files :
            IsPending(p) => DroppedIffNone(p, 1..Len(parent(Canonical(p))))

\* A complete scan with the empty package name registered that dropped a file
\* of the root and a file of a directory.
C22_Witness ==
    /\ status = "done"
    /\ "" \in seen_packages
    /\ \E p, q \in root_files :
        /\ IsPending(p) /\ ~Yielded(p) /\ Len(Canonical(p)) = 1
        /\ IsPending(q) /\ ~Yielded(q) /\ Len(Canonical(q)) > 1

(***************************************************************************)
(* C23.  In every reachable state of a scan, each member of the package    *)
(* registry is the dot-joined canonical directory components of some       *)
(* already classified module: the parent directory of a source module, the *)
(* directory above `__pycache__` of a bytecode module, or the directory of *)
(* an extension module (its full_name when that directory is the root).    *)
(* Classifying a source module registers exactly its dot-joined            *)
(* parent-directory components and nothing else.                           *)
(***************************************************************************)
\* The package that the claim has the module record r register.
PackageOfModule(r) ==
    LET c == Canonical(r.path)
    IN  CASE r.kind = "Source" -> join(parent(c), ".")
          [] r.kind = "Bytecode" -> join(SubSeq(c, 1, Len(c) - 2), ".")
          [] r.kind = "ExtensionModule" ->
                IF Len(c) = 1 THEN r.full_name ELSE join(parent(c), ".")

\* C23: the registry holds the packages of the yielded modules, as the claim
\* derives them from the modules' directories, and nothing else.
C23_RegistryOfDirectories ==
    seen_packages = {PackageOfModule(out[i]) : i \in {j \in Indices : IsModule(out[j])}}

(***************************************************************************)
(* C24.  For every yielded ExtensionModule: package is the dot-joined      *)
(* directory components, or full_name when there are none; if the module   *)
(* name is `__init__` then stem is empty and full_name equals the          *)
(* dot-joined directory components, otherwise stem is the module name and  *)
(* full_name is directory components + '.' + module name (just the module  *)
(* name at the root); and package is added to the registry.                *)
(***************************************************************************)
\* The module name of the extension module r: its file name without the suffix.
ExtensionModuleName(r) ==
    SubSeq(file_name(r.path), 1,
           Len(file_name(r.path)) - Len(r.extension_file_suffix))

ExtensionFields(r) ==
    LET dirs == parent(Canonical(r.path))
        m    == ExtensionModuleName(r)
    IN  /\ r.package = IF Len(dirs) = 0 THEN r.full_name ELSE join(dirs, ".")
        /\ m = "__init__" => r.stem = "" /\ r.full_name = join(dirs, ".")
        /\ m # "__init__" =>
            /\ r.stem = m
            /\ r.full_name =
                IF Len(dirs) = 0 THEN m ELSE join(dirs, ".") \o "." \o m
        /\ r.package \in seen_packages

\* C24: the fields of every yielded ExtensionModule follow from its directory
\* and module name, and its package is registered.
C24_ExtensionFields ==
    \A i \in Indices : out[i].kind = "ExtensionModule" => ExtensionFields(out[i])

\* An extension module of the root and one named __init__ in a directory have
\* been yielded.
C24_Witness ==
    \E i, j \in Indices :
        /\ out[i].kind = "ExtensionModule" /\ Len(Canonical(out[i].path)) = 1
        /\ out[j].kind = "ExtensionModule" /\ out[j].stem = ""
        /\ Len(Canonical(out[j].path)) > 1

(***************************************************************************)
(* C25.  A `.pyc` file whose immediate parent directory is `__pycache__`   *)
(* is yielded as a BytecodeModule whose package is the dot-joined          *)
(* components excluding the last two, and whose module name is the file    *)
(* stem (name without `.pyc`) split on '.', with the last segment dropped  *)
(* and the rest rejoined with '.'; its name is package + '.' + module      *)
(* name, or package alone when the module name is `__init__`.              *)
(***************************************************************************)
\* File p reaches the `.pyc` arm of the classifier.
IsPycFile(p) ==
    /\ ~IsExcluded(p)
    /\ extension(Canonical(p)) = <<"pyc">>
    /\ MatchingSuffixes(file_name(p)) = {}

\* File p is a `.pyc` file directly in a __pycache__ directory.
IsCachePyc(p) ==
    /\ IsPycFile(p)
    /\ Len(Canonical(p)) >= 2
    /\ Canonical(p)[Len(Canonical(p)) - 1] = "__pycache__"

\* The module name of the cache file named name: its stem up to the last '.',
\* empty when the stem has none.
CacheModuleName(name) ==
    LET stem == SubSeq(name, 1, Len(name) - Len(".pyc"))
        dot  == rfind(stem, ".")
    IN  IF dot = 0 THEN "" ELSE SubSeq(stem, 1, dot - 1)

\* The name of the claim for the cache file at canonical path c.
BytecodeName(c) ==
    DottedName(SubSeq(c, 1, Len(c) - 2), CacheModuleName(file_name(c)))

\* C25: a cache file is yielded, by the pull that takes it from the walker, as
\* a BytecodeModule named by the directory above __pycache__ and its module
\* name, and every BytecodeModule is the record of such a file.
C25_BytecodeNames ==
    /\ \A p \in root_files :
        IsCachePyc(p) /\ Delivered(p) =>
            \E i \in Indices :
                /\ out[i].kind = "Bytecode" /\ out[i].path = p
                /\ out[i].name = BytecodeName(Canonical(p))
    /\ \A i \in Indices :
        out[i].kind = "Bytecode" =>
            /\ IsCachePyc(out[i].path)
            /\ out[i].name = BytecodeName(Canonical(out[i].path))

\* The bytecode of a package's __init__ and of one of its modules have been
\* yielded.
C25_Witness ==
    \E i, j \in Indices :
        /\ out[i].kind = "Bytecode" /\ out[j].kind = "Bytecode"
        /\ CacheModuleName(file_name(out[i].path)) = "__init__"
        /\ out[j].name = out[i].name \o ".b"

(***************************************************************************)
(* C26.  The optimization level of a yielded BytecodeModule is One exactly *)
(* when its path ends with `.opt-1.pyc`, Two exactly when it ends with     *)
(* `.opt-2.pyc`, and Zero for every other `.pyc` file in a `__pycache__`   *)
(* directory.                                                              *)
(***************************************************************************)
\* The level of the claim for the file at path p.
LevelOfPath(p) ==
    IF ends_with(to_str(p), ".opt-1.pyc") THEN "One"
    ELSE IF ends_with(to_str(p), ".opt-2.pyc") THEN "Two"
    ELSE "Zero"

\* C26: every BytecodeModule carries the level that the end of its path tells.
C26_OptimizationLevel ==
    \A i \in Indices :
        out[i].kind = "Bytecode" =>
            /\ out[i].optimization_level = LevelOfPath(out[i].path)
            /\ out[i].optimization_level = "One"
                <=> ends_with(to_str(out[i].path), ".opt-1.pyc")
            /\ out[i].optimization_level = "Two"
                <=> ends_with(to_str(out[i].path), ".opt-2.pyc")

\* Bytecode modules of the three levels have been yielded.
C26_Witness ==
    \E i, j, k \in Indices :
        /\ out[i].kind = "Bytecode" /\ out[i].optimization_level = "Zero"
        /\ out[j].kind = "Bytecode" /\ out[j].optimization_level = "One"
        /\ out[k].kind = "Bytecode" /\ out[k].optimization_level = "Two"

(***************************************************************************)
(* C27.  The bytecode files of one module get one name: for a module m in  *)
(* package directory p and an interpreter tag t, the cache files           *)
(* p/__pycache__/m.t.pyc, p/__pycache__/m.t.opt-1.pyc and                  *)
(* p/__pycache__/m.t.opt-2.pyc are all yielded as BytecodeModule records   *)
(* with the same name, equal to the name of the source module p/m.py, and  *)
(* they differ only in optimization level and location.                    *)
(***************************************************************************)
\* m.t of the cache file named name: the name without `.pyc` and without the
\* optimization tag before it.
CacheBase(name) ==
    IF ends_with(name, ".opt-1.pyc") \/ ends_with(name, ".opt-2.pyc")
    THEN SubSeq(name, 1, Len(name) - Len(".opt-1.pyc"))
    ELSE SubSeq(name, 1, Len(name) - Len(".pyc"))

\* m of the cache file named name: m.t without the interpreter tag t.
ModuleOfCache(name) ==
    LET base == CacheBase(name)
        dot  == rfind(base, ".")
    IN  IF dot = 0 THEN base ELSE SubSeq(base, 1, dot - 1)

\* The name of the source module p/m.py for the cache file at canonical path c.
NameOfSource(c) ==
    SourceName(Append(SubSeq(c, 1, Len(c) - 2), ModuleOfCache(file_name(c)) \o ".py"))

\* C27: every BytecodeModule is named like the source module of its cache
\* file, so the cache files of one module and tag get one name.
C27_OneNamePerModule ==
    /\ \A i \in Indices :
        out[i].kind = "Bytecode" =>
            out[i].name = NameOfSource(Canonical(out[i].path))
    /\ \A i, j \in Indices :
        /\ out[i].kind = "Bytecode" /\ out[j].kind = "Bytecode"
        /\ parent(Canonical(out[i].path)) = parent(Canonical(out[j].path))
        /\ CacheBase(file_name(out[i].path)) = CacheBase(file_name(out[j].path))
        => out[i].name = out[j].name

(***************************************************************************)
(* C28.  A `.pyc` file with at least two canonical path components whose   *)
(* immediate parent directory is not `__pycache__` is yielded immediately  *)
(* as an Other record with package = dot-joined directory components,      *)
(* stem = the file name, and full_name = the dot-join of all path          *)
(* components; it adds nothing to the package registry and is not buffered *)
(* as a pending resource.                                                  *)
(***************************************************************************)
\* File p is a `.pyc` file of a directory that is no __pycache__.
IsLegacyPyc(p) ==
    /\ IsPycFile(p)
    /\ Len(Canonical(p)) >= 2
    /\ Canonical(p)[Len(Canonical(p)) - 1] # "__pycache__"

\* The record of the claim for file p.
OtherRecord(p) ==
    [kind |-> "Other",
     package |-> join(parent(Canonical(p)), "."),
     stem |-> file_name(p),
     full_name |-> join(Canonical(p), "."),
     path |-> p]

\* C28: a `.pyc` file outside __pycache__ is yielded as an Other record by the
\* pull that takes it from the walker; it is never buffered and the registry
\* holds only names that other files register.
C28_LegacyPyc ==
    /\ \A p \in root_files :
        IsLegacyPyc(p) =>
            /\ ~Buffered(p)
            /\ Delivered(p) => \E i \in Indices : out[i] = OtherRecord(p)
    /\ \A pkg \in seen_packages : \E p \in root_files :
        ~IsLegacyPyc(p) /\ pkg \in resolve_dir_entry(p, suffixes).packages

\* An Other record has been yielded, after a module registered the package of
\* its directory and before the walker is exhausted.
C28_Witness ==
    /\ \E i \in Indices :
        out[i].kind = "Other" /\ out[i].package \in seen_packages
    /\ walkdir_result # <<>>

(***************************************************************************)
(* C29.  A `.pyc` file with fewer than two canonical path components (a    *)
(* `.pyc` directly in the root or directly in a nested root) is classified *)
(* as an Other record rather than rejected: the scan yields it and         *)
(* continues.                                                              *)
(***************************************************************************)
\* C29 as stated: once the walker has delivered such a file, its Other record
\* has been yielded and the scan has not died.
C29_ShortPycYielded ==
    \A p \in root_files :
        IsShortPyc(p) /\ Delivered(p) =>
            /\ \E i \in Indices : out[i] = OtherRecord(p)
            /\ status # "panicked"

\* C29 as the code has it: such a file is rejected.  No record is ever yielded
\* for it, and the pull that takes it from the walker ends the scan with a
\* panic: nothing is yielded by that pull or after it.
C29_ShortPycRejected ==
    \A p \in root_files :
        IsShortPyc(p) =>
            /\ \A i \in Indices : out[i].path # p
            /\ Delivered(p) =>
                /\ status = "panicked"
                /\ \A i \in Indices : WalkIndex(out[i].path) < WalkIndex(p)

\* The scan died on a `.pyc` file that lies directly in the nested root
\* site-packages, with a pending resource in its buffer.
C29_Witness ==
    /\ status = "panicked"
    /\ \E p \in root_files :
        IsShortPyc(p) /\ Delivered(p) /\ p[1] = "site-packages"
    /\ resources # <<>>

(***************************************************************************)
(* C30.  Each pull (one call of next) advances the walker by at most one   *)
(* filesystem entry; pulls made after the walker is exhausted (the drain   *)
(* of the pending buffer) advance it by none.                              *)
(***************************************************************************)
\* C30 as stated: a step of a scan takes at most one entry from the walker,
\* and none from an exhausted one.
C30_OneEntryPerPull ==
    [][scans' = scans =>
        /\ Len(walkdir_result) <= Len(walkdir_result') + 1
        /\ walkdir_result = <<>> => walkdir_result' = <<>>]_vars

\* Entry p is skipped or buffered by the first loop, which goes on after it.
PassedOver(p) ==
    /\ ~resolve_dir_entry(p, suffixes).panicked
    /\ \/ resolve_dir_entry(p, suffixes).item = <<>>
       \/ resolve_dir_entry(p, suffixes).item[1].kind = "ResourceFile"

\* A pull takes the entries of the walker in order, past every skipped and
\* buffered file, up to the first one that it yields (or dies on); a pull that
\* yields a data resource or end-of-sequence has exhausted the walker.
PullAdvances ==
    /\ Len(walkdir_result') <= Len(walkdir_result)
    /\ walkdir_result' =
        SubSeq(walkdir_result,
               Len(walkdir_result) - Len(walkdir_result') + 1, Len(walkdir_result))
    /\ \A j \in 1..Len(walkdir_result) :
        j + Len(walkdir_result') < Len(walkdir_result) => PassedOver(walkdir_result[j])
    /\ status' # "panicked" =>
        IF Len(out') > Len(out) /\ ~IsData(out'[Len(out')])
        THEN /\ Len(walkdir_result') < Len(walkdir_result)
             /\ out'[Len(out')].path =
                    walkdir_result[Len(walkdir_result) - Len(walkdir_result')]
        ELSE /\ walkdir_result' = <<>>
             /\ \A j \in 1..Len(walkdir_result) : PassedOver(walkdir_result[j])

\* C30 as the code has it: pulls advance the walker to the next directly
\* classified entry or to its end, and not at all once it is exhausted.
C30_AdvanceToNextRecord ==
    [][scans' = scans =>
        /\ PullAdvances
        /\ walkdir_result = <<>> => walkdir_result' = <<>>]_vars

\* The first pull of a scan has taken three entries from the walker: it
\* buffered a file on its way to the record it yielded.
C30_Witness ==
    /\ Len(out) = 1
    /\ ~IsData(out[1])
    /\ WalkIndex(out[1].path) = 3
    /\ resources # <<>>
    /\ walkdir_result = <<>>

(***************************************************************************)
(* C31.  Across any sequence of pulls of one scan the package registry     *)
(* only grows: no pull removes a name, names are added only when a source, *)
(* bytecode or extension module is classified, and the drain phase after   *)
(* walker exhaustion only reads the registry (it is final once the first   *)
(* DataResource is resolved).                                              *)
(***************************************************************************)
\* A step of a scan keeps every name of the registry; it adds names only with
\* a module that it yields, and none once the walker is exhausted or a data
\* resource has been yielded.
RegistryGrows ==
    /\ seen_packages \subseteq seen_packages'
    /\ seen_packages' # seen_packages =>
        /\ Len(out') = Len(out) + 1
        /\ IsModule(out'[Len(out')])
        /\ seen_packages' \ seen_packages \subseteq
            resolve_dir_entry(out'[Len(out')].path, suffixes).packages
    /\ walkdir_result = <<>> => seen_packages' = seen_packages
    /\ (\E i \in Indices : IsData(out[i])) => seen_packages' = seen_packages

\* C31: the registry only grows, by the packages of classified modules, and
\* is final when the drain begins.
C31_RegistryGrows == [][scans' = scans => RegistryGrows]_vars

\* The scan has ended, with pulls made after its end, two names in the
\* registry and a data resource yielded.
C31_Witness ==
    /\ pulled_at_end
    /\ Cardinality(seen_packages) >= 2
    /\ \E i \in Indices : IsData(out[i])

(***************************************************************************)
(* C32.  Every file of the scanned tree produces at most one yielded       *)
(* record over the whole scan, and when the sequence ends the pending      *)
(* buffer is empty: each buffered file has been either yielded exactly     *)
(* once as a DataResource or dropped, and none is yielded twice or left    *)
(* behind.                                                                 *)
(***************************************************************************)
\* C32: the records of a scan are of distinct files of the tree, a file is
\* buffered at most once and not while it has a record, a pending file is
\* yielded as a DataResource only, and the buffer is empty when the sequence
\* has ended.
C32_AtMostOneRecord ==
    /\ \A i, j \in Indices : out[i].path = out[j].path => i = j
    /\ \A i \in Indices : out[i].path \in root_files
    /\ \A i, j \in 1..Len(resources) :
        resources[i].full_path = resources[j].full_path => i = j
    /\ \A p \in root_files : ~(Yielded(p) /\ Buffered(p))
    /\ \A i \in Indices : IsPending(out[i].path) <=> IsData(out[i])
    /\ status = "done" => resources = <<>>

\* The sequence has ended after two files were buffered, one of them yielded
\* as a DataResource and the other dropped.
C32_Witness ==
    /\ status = "done"
    /\ resources = <<>>
    /\ \E p, q \in root_files :
        /\ IsPending(p) /\ Yielded(p)
        /\ IsPending(q) /\ ~Yielded(q)

(***************************************************************************)
(* C33.  The leaf package of a yielded DataResource encloses the           *)
(* resource's directory: full_name equals leaf_package with every '.'      *)
(* replaced by '/', followed by '/' and relative_name, for every tree      *)
(* including trees with directory names that contain dots.                 *)
(***************************************************************************)
\* The directory of the package named pkg, relative to its root.
PackageDirectory(pkg) == replace(pkg, ".", "/")

\* C33: every DataResource lies at relative_name below the directory of its
\* leaf package.
C33_LeafEncloses ==
    \A i \in Indices :
        IsData(out[i]) =>
            out[i].full_name =
                PackageDirectory(out[i].leaf_package) \o "/" \o out[i].relative_name

(***************************************************************************)
(* C34.  A target is built only when it is registered, resolved and not    *)
(* yet built: build_resolved_target returns an error and leaves every      *)
(* target's state unchanged when the target is not registered or has no    *)
(* resolved value, and returns the stored built_target without building    *)
(* again when one exists, so between two registrations of a name the       *)
(* target's build is run at most once.                                     *)
(***************************************************************************)
\* The step is a call of build_resolved_target.
IsBuild == last_call'.op = "build_resolved_target"

\* The target of the call could be built when the call was made.
Buildable(t) ==
    /\ t \in DOMAIN targets
    /\ targets[t].resolved_value # <<>>
    /\ targets[t].built_target = <<>>

\* The build is run only for a registered, resolved target that is not built;
\* when it returns a ResolvedTarget, that is stored and returned.
BuiltOnlyWhenBuildable ==
    IsBuild /\ last_call'.built =>
        /\ Buildable(last_call'.target)
        /\ last_call'.ret.kind = "Ok" =>
            targets' = [targets EXCEPT ![last_call'.target].built_target =
                            <<last_call'.ret.value>>]
        /\ last_call'.ret.kind # "Ok" => targets' = targets

\* A call for a target that is not registered or not resolved returns an
\* error and changes no target.
UnresolvedIsError ==
    /\ IsBuild
    /\ \/ last_call'.target \notin DOMAIN targets
       \/ targets[last_call'.target].resolved_value = <<>>
    => /\ last_call'.ret = ValueErr
       /\ ~last_call'.built
       /\ targets' = targets

\* A call for a built target returns the stored built_target and builds nothing.
StoredBuiltReturned ==
    /\ IsBuild
    /\ last_call'.target \in DOMAIN targets
    /\ targets[last_call'.target].built_target # <<>>
    => /\ last_call'.ret = ValueOk(targets[last_call'.target].built_target[1])
       /\ ~last_call'.built
       /\ targets' = targets

\* The build of a name is not run again before the name is registered again.
BuiltOnce == IsBuild /\ last_call'.built => ~built_since[last_call'.target]

\* C34 as stated: with at most one run of the build between two registrations.
C34_BuiltAtMostOnce ==
    [][BuiltOnlyWhenBuildable /\ UnresolvedIsError /\ StoredBuiltReturned
       /\ BuiltOnce]_vars

\* C34 as the code has it: the build is run only while the target holds no
\* built_target, so at most one run between two registrations returns a
\* ResolvedTarget, and a run that returned an error can be followed by another.
C34_BuiltWhileNotBuilt ==
    [][BuiltOnlyWhenBuildable /\ UnresolvedIsError /\ StoredBuiltReturned]_vars

\* build_resolved_target has returned the stored built_target of a target
\* whose build had been run, without running it again.
C34_Witness ==
    /\ last_call.op = "build_resolved_target"
    /\ last_call.ret.kind = "Ok"
    /\ ~last_call.built
    /\ built_since[last_call.target]

(***************************************************************************)
(* C35.  register_target on an already registered name replaces the        *)
(* target's callable and depends and clears its resolved_value and         *)
(* built_target, leaving all other targets unchanged, so the next          *)
(* resolve_target for that name invokes the new callable instead of        *)
(* returning the value cached from the old one.                            *)
(***************************************************************************)
\* A step that registers a name again leaves a fresh Target under the name
\* and every other target as it was.
ReplacesTarget ==
    /\ last_call'.op = "register_target"
    /\ last_call'.target \in DOMAIN targets
    => /\ DOMAIN targets' = DOMAIN targets
       /\ targets'[last_call'.target] =
            [callable |-> last_call'.callable, depends |-> last_call'.depends,
             resolved_value |-> <<>>, built_target |-> <<>>]
       /\ \A n \in DOMAIN targets \ {last_call'.target} : targets'[n] = targets[n]

\* The step is the first resolve_target of a name after it was registered
\* again, i.e. the call that follows the registration.
ResolveAfterReplace ==
    /\ last_call.op = "register_target"
    /\ last_call.replaced # <<>>
    /\ last_call'.op = "resolve_target"
    /\ last_call'.target = last_call.target

\* The calls of the callable of the resolved name made in the step.
OwnInvocations ==
    {i \in 1..Len(last_call'.invoked) :
        last_call'.invoked[i].target = last_call'.target}

\* The resolve_target after a re-registration invokes the new callable.
InvokesNewCallable ==
    ResolveAfterReplace =>
        \E i \in OwnInvocations : last_call'.invoked[i].callable = last_call.callable

\* The resolve_target after a re-registration returns nothing cached: a value
\* it returns is what the new callable, invoked in this call, returned; the
\* callable it invokes is the new one; and it invokes it unless the name has
\* depends, whose resolution comes first.
NothingCachedReturned ==
    ResolveAfterReplace =>
        /\ \A i \in OwnInvocations :
            last_call'.invoked[i].callable = last_call.callable
        /\ last_call'.ret.kind = "Ok" =>
            \E i \in OwnInvocations :
                last_call'.ret.value =
                    call(last_call.callable, last_call'.invoked[i].args)
        /\ last_call.depends = <<>> =>
            \E i \in OwnInvocations :
                /\ last_call'.invoked[i].callable = last_call.callable
                /\ last_call'.invoked[i].args = <<>>

\* C35 as stated: the next resolve_target invokes the new callable.
C35_NewCallableInvoked == [][ReplacesTarget /\ InvokesNewCallable]_vars

\* What holds of every step: the registration replaces the target and no
\* other, and the next resolve_target returns no cached value; it invokes the
\* new callable when the name has no depends.
C35_CacheCleared == [][ReplacesTarget /\ NothingCachedReturned]_vars

\* resolve_target has returned the value of the new callable of a name that
\* was registered again, with another callable, while it held a resolved and
\* a built value and another target was resolved.
C35_Witness ==
    /\ last_call.op = "resolve_target"
    /\ last_call.follows # <<>>
    /\ last_call.follows[1].resolved_value # <<>>
    /\ last_call.follows[1].built_target # <<>>
    /\ last_call.follows[1].callable # targets[last_call.target].callable
    /\ last_call.ret.kind = "Ok"
    /\ last_call.ret.value # last_call.follows[1].resolved_value[1]
    /\ last_call.invoked # <<>>
    /\ targets[last_call.target].built_target = <<>>
    /\ \E n \in DOMAIN targets \ {last_call.target} :
        targets[n].resolved_value # <<>>

(***************************************************************************)
(* C36.  resolve_target on a registered target always terminates, with a   *)
(* value or an error, for every depends graph that register_target can     *)
(* build, including a target that lists itself and a cycle of targets that *)
(* depend on one another.                                                  *)
(***************************************************************************)
\* n is reached from target by following depends lists of registered targets.
RECURSIVE DependsOn(_, _, _)
DependsOn(target, n, fuel) ==
    /\ fuel > 0
    /\ target \in DOMAIN targets
    /\ \E i \in 1..Len(targets[target].depends) :
        \/ targets[target].depends[i] = n
        \/ DependsOn(targets[target].depends[i], n, fuel - 1)

\* target lists itself or lies on a cycle of registered targets.
OnCycle(target) == DependsOn(target, target, Cardinality(Targets))

\* Every call of resolve_target on a registered target ends with a value or
\* an error.
C36_ValueOrError ==
    [][/\ last_call'.op = "resolve_target"
       /\ last_call'.target \in DOMAIN targets
       => last_call'.ret.kind \in {"Ok", "Err"}]_vars

\* The same, for the targets that list themselves or lie on a cycle.
C36_CycleEndsInError ==
    [][/\ last_call'.op = "resolve_target"
       /\ OnCycle(last_call'.target)
       => last_call'.ret.kind = "Err"]_vars

====
